---- MODULE Spec2Model ----
(***************************************************************************)
(* Model of samo-activities.  From app/calendar.py: the recurrence         *)
(* expander (parse_iso, parse_weekdays, expand_pattern_dates), the         *)
(* meeting-date resolution (activity_meeting_dates), the calendar          *)
(* assembler (build_calendar_data) and build_query_string.  From           *)
(* app/services/activities.py: get_meeting_dates_batch.  From              *)
(* app/sessions.py, app/deps.py, app/client.py and app/routes/auth.py:     *)
(* the session table, the session middleware, and sign-in and logout of    *)
(* the client of a session.                                                *)
(*                                                                         *)
(* Python strings are sequences of one-character strings.  A date is its   *)
(* proleptic Gregorian ordinal (datetime.date.toordinal()), None is 0.     *)
(* A call returns a record whose exc field is "none" when it returned and  *)
(* the name of the Python exception when it raised.                        *)
(***************************************************************************)
EXTENDS Integers, Sequences, FiniteSets, TLC

VARIABLES pc, pattern, expanded, activity, meeting_info, resolved,
          activities, meeting_dates, today, months,
          params, page, query,
          activity_ids, tasks, batch,
          sessions, clients, next_token, requests, delivered,
          calls

vars == <<pc, pattern, expanded, activity, meeting_info, resolved,
          activities, meeting_dates, today, months,
          params, page, query,
          activity_ids, tasks, batch,
          sessions, clients, next_token, requests, delivered,
          calls>>

\* The arguments and results of the calendar functions.
calendarVars == <<pattern, expanded, activity, meeting_info, resolved,
                  activities, meeting_dates, today, months>>

\* The arguments and the result of build_query_string.
queryVars == <<params, page, query>>

\* The argument of get_meeting_dates_batch, its tasks and its result.
batchVars == <<activity_ids, tasks, batch>>

\* The session table, the clients, the count of the session ids made, the
\* requests being served and the session ids the responses have set as
\* samo_session.
sessionVars == <<sessions, clients, next_token, requests, delivered>>

\* The invocations of the core functions that are in progress at the same
\* time, each with its arguments, its local variables and its result.
callVars == <<calls>>

\* What the calendar functions neither read nor write.
nonCalendarVars == <<queryVars, batchVars, sessionVars, callVars>>

QueryIdle ==
  /\ params = <<>>
  /\ page = 0
  /\ query = <<>>

BatchIdle ==
  /\ activity_ids = <<>>
  /\ tasks = <<>>
  /\ batch = [returned |-> FALSE, meeting_dates |-> <<>>]

SessionIdle ==
  /\ sessions = <<>>
  /\ clients = <<>>
  /\ next_token = 0
  /\ requests = <<>>
  /\ delivered = {}

CallsIdle == calls = <<>>

NonCalendarIdle == QueryIdle /\ BatchIdle /\ SessionIdle /\ CallsIdle

(***************************************************************************)
(* Characters and small string helpers                                     *)
(***************************************************************************)

Digits == <<"0", "1", "2", "3", "4", "5", "6", "7", "8", "9">>

DigitSet == {Digits[i] : i \in 1..10}

DigitChar(n) == Digits[n + 1]

DigitVal(c) == CHOOSE n \in 0..9 : Digits[n + 1] = c

\* str.isdigit() is also true of digits that int() rejects, such as the
\* superscript two.
SuperscriptDigits == {"^2"}

Pad2(n) == <<DigitChar(n \div 10), DigitChar(n % 10)>>

Pad4(n) == <<DigitChar((n \div 1000) % 10), DigitChar((n \div 100) % 10),
             DigitChar((n \div 10) % 10), DigitChar(n % 10)>>

\* s[:k]
Prefix(s, k) == SubSeq(s, 1, IF Len(s) < k THEN Len(s) ELSE k)

UpperToLower ==
  [c \in {"A", "B", "C", "D", "E", "F", "G", "H", "I", "J", "K", "L", "M",
          "N", "O", "P", "Q", "R", "S", "T", "U", "V", "W", "X", "Y", "Z"} |->
     CASE c = "A" -> "a" [] c = "B" -> "b" [] c = "C" -> "c" [] c = "D" -> "d"
       [] c = "E" -> "e" [] c = "F" -> "f" [] c = "G" -> "g" [] c = "H" -> "h"
       [] c = "I" -> "i" [] c = "J" -> "j" [] c = "K" -> "k" [] c = "L" -> "l"
       [] c = "M" -> "m" [] c = "N" -> "n" [] c = "O" -> "o" [] c = "P" -> "p"
       [] c = "Q" -> "q" [] c = "R" -> "r" [] c = "S" -> "s" [] c = "T" -> "t"
       [] c = "U" -> "u" [] c = "V" -> "v" [] c = "W" -> "w" [] c = "X" -> "x"
       [] c = "Y" -> "y" [] c = "Z" -> "z"]

\* str.lower()
Lower(s) == [i \in 1..Len(s) |->
               IF s[i] \in DOMAIN UpperToLower THEN UpperToLower[s[i]] ELSE s[i]]

RECURSIVE LStrip(_)
LStrip(s) == IF s # <<>> /\ s[1] = " " THEN LStrip(Tail(s)) ELSE s

RECURSIVE RStrip(_)
RStrip(s) == IF s # <<>> /\ s[Len(s)] = " "
             THEN RStrip(SubSeq(s, 1, Len(s) - 1)) ELSE s

\* str.strip()
Strip(s) == RStrip(LStrip(s))

\* str.split(","): the list of the segments between commas, never empty.
RECURSIVE SplitAcc(_, _, _)
SplitAcc(s, cur, acc) ==
  IF s = <<>> THEN Append(acc, cur)
  ELSE IF s[1] = "," THEN SplitAcc(Tail(s), <<>>, Append(acc, cur))
  ELSE SplitAcc(Tail(s), Append(cur, s[1]), acc)

Split(s) == SplitAcc(s, <<>>, <<>>)

(***************************************************************************)
(* datetime.date arithmetic                                                *)
(***************************************************************************)

MINYEAR == 1

MAXYEAR == 9999

NoDate == 0

IsLeap(y) == y % 4 = 0 /\ (y % 100 # 0 \/ y % 400 = 0)

DaysInMonth(y, m) ==
  IF m = 2 THEN (IF IsLeap(y) THEN 29 ELSE 28)
  ELSE IF m \in {4, 6, 9, 11} THEN 30 ELSE 31

DaysBeforeYear(y) ==
  (y - 1) * 365 + ((y - 1) \div 4) - ((y - 1) \div 100) + ((y - 1) \div 400)

RECURSIVE DaysBeforeMonth(_, _)
DaysBeforeMonth(y, m) ==
  IF m = 1 THEN 0 ELSE DaysBeforeMonth(y, m - 1) + DaysInMonth(y, m - 1)

\* datetime.date(y, m, d).toordinal()
Ymd2Ord(y, m, d) == DaysBeforeYear(y) + DaysBeforeMonth(y, m) + d

DateMax == Ymd2Ord(MAXYEAR, 12, 31)

YearOf(o) ==
  LET n0   == o - 1
      n400 == n0 \div 146097
      r400 == n0 % 146097
      n100 == r400 \div 36524
      r100 == r400 % 36524
      n4   == r100 \div 1461
      r4   == r100 % 1461
      n1   == r4 \div 365
      y    == n400 * 400 + n100 * 100 + n4 * 4 + n1 + 1
  IN  IF n1 = 4 \/ n100 = 4 THEN y - 1 ELSE y

MonthOf(o) ==
  LET y == YearOf(o)
      n == o - DaysBeforeYear(y)
  IN  CHOOSE m \in 1..12 :
        DaysBeforeMonth(y, m) < n /\ n <= DaysBeforeMonth(y, m) + DaysInMonth(y, m)

DayOf(o) == o - DaysBeforeYear(YearOf(o)) - DaysBeforeMonth(YearOf(o), MonthOf(o))

\* date.weekday(): Monday = 0 ... Sunday = 6
Weekday(o) == (o + 6) % 7

\* date.isoformat()
IsoFormat(o) ==
  Pad4(YearOf(o)) \o <<"-">> \o Pad2(MonthOf(o)) \o <<"-">> \o Pad2(DayOf(o))

(***************************************************************************)
(* Python values that reach parse_iso: a str, None or an int                *)
(***************************************************************************)

StrVal(s) == [t |-> "str", s |-> s, n |-> 0]

NoneVal == [t |-> "none", s |-> <<>>, n |-> 0]

IntVal(n) == [t |-> "int", s |-> <<>>, n |-> n]

\* Python truthiness: None, "" and 0 are falsy.
Falsy(v) == v.t = "none" \/ (v.t = "str" /\ v.s = <<>>) \/ (v.t = "int" /\ v.n = 0)

\* The numeric value of two or four decimal digits.
RECURSIVE DecimalValue(_)
DecimalValue(s) ==
  IF s = <<>> THEN 0
  ELSE DecimalValue(SubSeq(s, 1, Len(s) - 1)) * 10 + DigitVal(s[Len(s)])

AllDigits(s) == \A i \in 1..Len(s) : s[i] \in DigitSet

\* datetime.date.fromisoformat on the extended format YYYY-MM-DD; NoDate
\* stands for the ValueError that parse_iso catches.
FromIsoFormat(s) ==
  IF /\ Len(s) = 10
     /\ s[5] = "-"
     /\ s[8] = "-"
     /\ AllDigits(SubSeq(s, 1, 4))
     /\ AllDigits(SubSeq(s, 6, 7))
     /\ AllDigits(SubSeq(s, 9, 10))
  THEN LET y == DecimalValue(SubSeq(s, 1, 4))
           m == DecimalValue(SubSeq(s, 6, 7))
           d == DecimalValue(SubSeq(s, 9, 10))
       IN  IF /\ MINYEAR <= y
              /\ y <= MAXYEAR
              /\ 1 <= m
              /\ m <= 12
              /\ 1 <= d
              /\ d <= DaysInMonth(y, m)
           THEN Ymd2Ord(y, m, d)
           ELSE NoDate
  ELSE NoDate

\* parse_iso(s): [exc, date]; date is NoDate when the code returns None.
parse_iso(v) ==
  IF Falsy(v) THEN [exc |-> "none", date |-> NoDate]
  ELSE IF v.t # "str" THEN [exc |-> "TypeError", date |-> NoDate]
  ELSE [exc |-> "none", date |-> FromIsoFormat(Prefix(v.s, 10))]

WEEKDAY_ABBR_MAP ==
  [k \in {<<"m", "o", "n">>, <<"t", "u", "e">>, <<"w", "e", "d">>,
          <<"t", "h", "u">>, <<"f", "r", "i">>, <<"s", "a", "t">>,
          <<"s", "u", "n">>} |->
     CASE k = <<"m", "o", "n">> -> 0
       [] k = <<"t", "u", "e">> -> 1
       [] k = <<"w", "e", "d">> -> 2
       [] k = <<"t", "h", "u">> -> 3
       [] k = <<"f", "r", "i">> -> 4
       [] k = <<"s", "a", "t">> -> 5
       [] k = <<"s", "u", "n">> -> 6]

RECURSIVE WeekdaysOfParts(_, _)
WeekdaysOfParts(parts, result) ==
  IF parts = <<>> THEN result
  ELSE LET key == Prefix(Lower(Strip(Head(parts))), 3)
       IN  WeekdaysOfParts(Tail(parts),
                           IF key \in DOMAIN WEEKDAY_ABBR_MAP
                           THEN Append(result, WEEKDAY_ABBR_MAP[key])
                           ELSE result)

\* parse_weekdays(weekdays_str): the list of weekday numbers, in order.
parse_weekdays(weekdays_str) == WeekdaysOfParts(Split(weekdays_str), <<>>)

(***************************************************************************)
(* expand_pattern_dates                                                    *)
(***************************************************************************)

\* The entries of ActivityPattern.exception_dates (an untyped list): a str,
\* a dict (with or without a "date" key), or any other value.
StrEntry(s) == [kind |-> "str", has |-> FALSE, v |-> StrVal(s)]

DictEntry(v) == [kind |-> "dict", has |-> TRUE, v |-> v]

EmptyDictEntry == [kind |-> "dict", has |-> FALSE, v |-> NoneVal]

OtherEntry == [kind |-> "other", has |-> FALSE, v |-> NoneVal]

\* exc.get("date", "")
DictGetDate(exc) == IF exc.has THEN exc.v ELSE StrVal(<<>>)

\* The loop over pattern.exception_dates with the isinstance(exc, dict)
\* branch left out: only plain strings exclude a date.
RECURSIVE CollectExceptionDates_StringsOnly(_, _)
CollectExceptionDates_StringsOnly(excs, exception_dates) ==
  IF excs = <<>> THEN [exc |-> "none", dates |-> exception_dates]
  ELSE LET e == Head(excs)
           r == IF e.kind = "str" THEN parse_iso(e.v)
                ELSE [exc |-> "none", date |-> NoDate]
       IN  IF r.exc # "none" THEN [exc |-> r.exc, dates |-> {}]
           ELSE CollectExceptionDates_StringsOnly(
                  Tail(excs),
                  IF r.date # NoDate THEN exception_dates \cup {r.date}
                  ELSE exception_dates)

\* calendar.py 129-138: the loop over pattern.exception_dates.
RECURSIVE CollectExceptionDates(_, _)
CollectExceptionDates(excs, exception_dates) ==
  IF excs = <<>> THEN [exc |-> "none", dates |-> exception_dates]
  ELSE LET e == Head(excs)
           r == IF e.kind = "str" THEN parse_iso(e.v)
                ELSE IF e.kind = "dict" THEN parse_iso(DictGetDate(e))
                ELSE [exc |-> "none", date |-> NoDate]
       IN  IF r.exc # "none" THEN [exc |-> r.exc, dates |-> {}]
           ELSE CollectExceptionDates(
                  Tail(excs),
                  IF r.date # NoDate THEN exception_dates \cup {r.date}
                  ELSE exception_dates)

SeqToSet(q) == {q[i] : i \in 1..Len(q)}

\* calendar.py 141-143: the union of the weekdays of all pattern_dates.
RECURSIVE AllWeekdays(_, _)
AllWeekdays(pattern_dates, all_weekdays) ==
  IF pattern_dates = <<>> THEN all_weekdays
  ELSE AllWeekdays(Tail(pattern_dates),
                   all_weekdays \cup SeqToSet(parse_weekdays(Head(pattern_dates).weekdays)))

\* str.isdigit()
IsDigitStr(s) ==
  s # <<>> /\ \A i \in 1..Len(s) : s[i] \in DigitSet \cup SuperscriptDigits

\* calendar.py 149-152: the loop over the comma-separated week tokens;
\* int() raises ValueError on a digit that is not a decimal digit.
RECURSIVE ParseWeekParts(_, _)
ParseWeekParts(parts, parsed) ==
  IF parts = <<>> THEN [exc |-> "none", weeks |-> parsed]
  ELSE LET part == Strip(Head(parts))
       IN  IF IsDigitStr(part)
           THEN IF AllDigits(part)
                THEN ParseWeekParts(Tail(parts), parsed \cup {DecimalValue(part)})
                ELSE [exc |-> "ValueError", weeks |-> {}]
           ELSE ParseWeekParts(Tail(parts), parsed)

\* calendar.py 146-154: unset is TRUE when weeks_of_month stays None.
ParseWeeksOfMonth(weeks_of_month) ==
  IF weeks_of_month = <<>> THEN [exc |-> "none", unset |-> TRUE, weeks |-> {}]
  ELSE LET r == ParseWeekParts(Split(weeks_of_month), {})
       IN  [exc |-> r.exc, unset |-> (r.weeks = {}), weeks |-> r.weeks]

\* calendar.py 164
Occurrence(current) == ((DayOf(current) - 1) \div 7) + 1

\* calendar.py 160-168: does the loop body add current to dates?
Includes(current, all_weekdays, exception_dates, wom) ==
  /\ Weekday(current) \in all_weekdays
  /\ current \notin exception_dates
  /\ (wom.unset \/ Occurrence(current) \in wom.weeks)

\* calendar.py 159-170: the day loop; current += delta raises OverflowError
\* when current is date.max.
RECURSIVE ExpandLoop(_, _, _, _, _, _)
ExpandLoop(current, end, all_weekdays, exception_dates, wom, dates) ==
  IF current > end THEN [exc |-> "none", dates |-> dates]
  ELSE LET dates2 == IF Includes(current, all_weekdays, exception_dates, wom)
                     THEN dates \cup {current} ELSE dates
       IN  IF current = DateMax THEN [exc |-> "OverflowError", dates |-> {}]
           ELSE ExpandLoop(current + 1, end, all_weekdays, exception_dates,
                           wom, dates2)

\* expand_pattern_dates with "start is None and end is None" as its guard:
\* with one bound missing the comparison current <= end raises TypeError.
expand_pattern_dates_GuardAnd(p) ==
  LET start == parse_iso(StrVal(p.beginning_date)).date
      end   == parse_iso(StrVal(p.ending_date)).date
  IN  IF start = NoDate /\ end = NoDate THEN [exc |-> "none", dates |-> {}]
      ELSE LET ex == CollectExceptionDates(p.exception_dates, {})
           IN  IF ex.exc # "none" THEN [exc |-> ex.exc, dates |-> {}]
               ELSE LET all_weekdays == AllWeekdays(p.pattern_dates, {})
                        wom == ParseWeeksOfMonth(p.weeks_of_month)
                    IN  IF wom.exc # "none" THEN [exc |-> wom.exc, dates |-> {}]
                        ELSE IF start = NoDate \/ end = NoDate
                        THEN [exc |-> "TypeError", dates |-> {}]
                        ELSE ExpandLoop(start, end, all_weekdays, ex.dates,
                                        wom, {})

expand_pattern_dates(p) ==
  LET start == parse_iso(StrVal(p.beginning_date)).date
      end   == parse_iso(StrVal(p.ending_date)).date
  IN  IF start = NoDate \/ end = NoDate THEN [exc |-> "none", dates |-> {}]
      ELSE LET ex == CollectExceptionDates(p.exception_dates, {})
           IN  IF ex.exc # "none" THEN [exc |-> ex.exc, dates |-> {}]
               ELSE LET all_weekdays == AllWeekdays(p.pattern_dates, {})
                        wom == ParseWeeksOfMonth(p.weeks_of_month)
                    IN  IF wom.exc # "none" THEN [exc |-> wom.exc, dates |-> {}]
                        ELSE ExpandLoop(start, end, all_weekdays, ex.dates,
                                        wom, {})

(***************************************************************************)
(* Inputs of the expansion                                                 *)
(***************************************************************************)

\* The number of entries in an enumerated exception_dates list.
MaxExc == 2

\* The text "YYYY-MM-DD" of three numbers, a calendar date or not.
IsoStr(y, m, d) == Pad4(y) \o <<"-">> \o Pad2(m) \o <<"-">> \o Pad2(d)

NotADate == <<"n", "o", "t", "-", "a", "-", "d", "a", "t", "e">>

SlashDate == <<"2", "0", "2", "6", "/", "0", "3", "/", "1", "5">>

TimeSuffix == <<"T", "1", "0", ":", "3", "0", ":", "0", "0">>

\* Texts that are no ISO date: "", "not-a-date", "2026/03/15", February 30th,
\* month 13 and a date cut short.
MalformedDates ==
  {<<>>, NotADate, SlashDate, IsoStr(2026, 2, 30), IsoStr(2026, 13, 15),
   Prefix(IsoStr(2026, 3, 16), 9)}

\* <<beginning_date, ending_date>>
BeginEndPairs ==
  {<<IsoStr(2026, 3, 16), IsoStr(2026, 3, 22)>>,
   <<IsoStr(2026, 3, 1), IsoStr(2026, 3, 31)>>,
   <<IsoStr(2026, 3, 16), IsoStr(2026, 3, 16)>>,
   <<IsoStr(2026, 3, 16) \o TimeSuffix, IsoStr(2026, 3, 22) \o TimeSuffix>>,
   <<IsoStr(2026, 12, 28), IsoStr(2027, 1, 5)>>,
   <<IsoStr(2026, 3, 22), IsoStr(2026, 3, 16)>>,
   <<IsoStr(9999, 12, 20), IsoStr(9999, 12, 30)>>,
   <<IsoStr(9999, 12, 20), IsoStr(9999, 12, 31)>>}
  \cup {<<b, IsoStr(2026, 3, 22)>> : b \in MalformedDates}
  \cup {<<IsoStr(2026, 3, 16), e>> : e \in MalformedDates}

PD(w) == [weekdays |-> w, starting_time |-> <<>>, ending_time |-> <<>>]

W_Mon == <<"M", "o", "n">>

W_MonWed == <<"M", "o", "n", ",", " ", "W", "e", "d">>

W_WedFri == <<"W", "e", "d", ",", "F", "r", "i">>

W_Junk == <<"x", "y", "z", ",", ",", "M", "o">>

W_Mixed == <<" ", "m", "o", "n", "d", "a", "y", " ", ",", "S", "U", "N", ",", "?">>

PatternDatesPool ==
  {<<>>, <<PD(<<>>)>>, <<PD(W_Junk)>>, <<PD(W_Mon)>>, <<PD(W_MonWed)>>,
   <<PD(W_Mon), PD(W_WedFri)>>, <<PD(W_Mixed)>>}

WeeksPool ==
  {<<>>,
   <<"1", ",", "3">>,
   <<"3", ",", " ", "4", " ", ",", "x">>,
   <<"a", "b", "c">>,
   <<"0">>,
   <<"1", ",", "^2">>}

ExceptionPool ==
  {StrEntry(IsoStr(2026, 3, 18)),
   DictEntry(StrVal(IsoStr(2026, 3, 16) \o TimeSuffix)),
   StrEntry(NotADate),
   DictEntry(NoneVal),
   DictEntry(IntVal(5)),
   EmptyDictEntry,
   OtherEntry}

SeqsUpTo(S, n) == UNION {[1..k -> S] : k \in 0..n}

Patterns ==
  {[beginning_date |-> be[1], ending_date |-> be[2], weeks_of_month |-> w,
    exception_dates |-> x, pattern_dates |-> pds] :
     be \in BeginEndPairs, w \in WeeksPool,
     x \in SeqsUpTo(ExceptionPool, MaxExc), pds \in PatternDatesPool}

EmptyPattern ==
  [beginning_date |-> <<>>, ending_date |-> <<>>, weeks_of_month |-> <<>>,
   exception_dates |-> <<>>, pattern_dates |-> <<>>]

NoResult == [exc |-> "none", dates |-> {}]

(***************************************************************************)
(* The expansion of one pattern                                            *)
(***************************************************************************)

InitExpand ==
  /\ pc = "input"
  /\ NonCalendarIdle
  /\ pattern \in Patterns
  /\ expanded = NoResult
  /\ activity = <<>>
  /\ meeting_info = <<>>
  /\ resolved = NoResult
  /\ activities = <<>>
  /\ meeting_dates = <<>>
  /\ today = NoDate
  /\ months = <<>>

Expand ==
  /\ pc = "input"
  /\ UNCHANGED nonCalendarVars
  /\ expanded' = expand_pattern_dates(pattern)
  /\ pc' = "expanded"
  /\ UNCHANGED <<pattern, activity, meeting_info, resolved, activities,
                 meeting_dates, today, months>>

NextExpand == Expand

SpecExpand == InitExpand /\ [][NextExpand]_vars

(***************************************************************************)
(* Properties of the expansion                                             *)
(***************************************************************************)

BeginOf(p) == parse_iso(StrVal(p.beginning_date)).date

EndOf(p) == parse_iso(StrVal(p.ending_date)).date

\* The union of the weekdays named by the pattern_dates entries.
WeekdayUnion(p) ==
  UNION {SeqToSet(parse_weekdays(p.pattern_dates[i].weekdays)) :
           i \in 1..Len(p.pattern_dates)}

\* The date an exception entry denotes, NoDate when it denotes none.
EntryDate(e) ==
  IF e.kind = "other" THEN NoDate
  ELSE LET v == IF e.kind = "str" THEN e.v ELSE DictGetDate(e)
       IN  IF v.t = "str" THEN FromIsoFormat(Prefix(v.s, 10)) ELSE NoDate

ParsedExceptions(p) ==
  {EntryDate(p.exception_dates[i]) : i \in 1..Len(p.exception_dates)} \ {NoDate}

\* The dates of [begin, end] on a weekday of the union, exceptions removed.
WeekdayDatesInRange(p) ==
  {d \in BeginOf(p)..EndOf(p) :
     Weekday(d) \in WeekdayUnion(p) /\ d \notin ParsedExceptions(p)}

C1_Case ==
  /\ pc = "expanded"
  /\ BeginOf(pattern) # NoDate
  /\ EndOf(pattern) # NoDate
  /\ WeekdayUnion(pattern) # {}
  /\ pattern.weeks_of_month = <<>>

\* C1: for every pattern with parsable beginning and ending dates, a
\* non-empty weekday union and no week-of-month filter, expand_pattern_dates
\* returns exactly the dates of [begin, end] whose weekday is in the union
\* and which are not exception dates.
C1_ExpansionIsWeekdayDatesInRange ==
  C1_Case => expanded = [exc |-> "none", dates |-> WeekdayDatesInRange(pattern)]

\* What remains of C1 when the call returns: the returned set is exactly
\* that set.
C1_ReturnedSetIsWeekdayDatesInRange ==
  (C1_Case /\ expanded.exc = "none") => expanded.dates = WeekdayDatesInRange(pattern)

C1_ReturnedSeveralDates ==
  C1_Case /\ expanded.exc = "none" /\ Cardinality(expanded.dates) >= 3
  /\ ParsedExceptions(pattern) \cap BeginOf(pattern)..EndOf(pattern) # {}

\* The week numbers named by weeks_of_month: its comma-separated segments,
\* trimmed, that are decimal numbers.
WeekSet(p) ==
  LET parts == Split(p.weeks_of_month)
  IN  {DecimalValue(Strip(parts[i])) :
         i \in {j \in 1..Len(parts) : Strip(parts[j]) # <<>> /\ AllDigits(Strip(parts[j]))}}

C2_Case ==
  /\ pc = "expanded"
  /\ BeginOf(pattern) # NoDate
  /\ EndOf(pattern) # NoDate
  /\ WeekSet(pattern) # {}

MarchMondays13 ==
  [beginning_date |-> IsoStr(2026, 3, 1), ending_date |-> IsoStr(2026, 3, 31),
   weeks_of_month |-> <<"1", ",", "3">>, exception_dates |-> <<>>,
   pattern_dates |-> <<PD(W_Mon)>>]

\* C2: with a week-of-month filter set, a date matching weekday, range and
\* exceptions is in the expansion if and only if ((day - 1) div 7) + 1 is in
\* the week set; March 2026, Mondays, weeks {1,3} expands to exactly
\* {2026-03-02, 2026-03-16}.
C2_WeekOfMonthFilter ==
  /\ C2_Case =>
       \A d \in WeekdayDatesInRange(pattern) :
         d \in expanded.dates <=> (((DayOf(d) - 1) \div 7) + 1) \in WeekSet(pattern)
  /\ (pc = "expanded" /\ pattern = MarchMondays13) =>
       expanded = [exc |-> "none",
                   dates |-> {Ymd2Ord(2026, 3, 2), Ymd2Ord(2026, 3, 16)}]

\* What remains of C2 when the call returns.
C2_ReturnedSetObeysWeekFilter ==
  (C2_Case /\ expanded.exc = "none") =>
     expanded.dates =
       {d \in WeekdayDatesInRange(pattern) :
          (((DayOf(d) - 1) \div 7) + 1) \in WeekSet(pattern)}

C2_FilterDroppedADate ==
  /\ C2_Case
  /\ expanded.exc = "none"
  /\ expanded.dates # {}
  /\ expanded.dates # WeekdayDatesInRange(pattern)

\* C3: expand_pattern_dates returns the empty set whenever the beginning or
\* the ending date is missing or unparsable, whatever the weekdays, the
\* exceptions and the week filter are.
C3_UnparsableBoundGivesEmptySet ==
  (/\ pc = "expanded"
   /\ \/ Prefix(pattern.beginning_date, 10) \in MalformedDates
      \/ Prefix(pattern.ending_date, 10) \in MalformedDates)
  => expanded = [exc |-> "none", dates |-> {}]

\* A malformed ending date on a pattern that would otherwise raise or
\* produce dates.
C3_MalformedBoundSeen ==
  /\ pc = "expanded"
  /\ pattern.ending_date = IsoStr(2026, 2, 30)
  /\ WeekdayUnion(pattern) # {}
  /\ \E i \in 1..Len(pattern.exception_dates) :
       pattern.exception_dates[i] = DictEntry(IntVal(5))
  /\ expanded.dates = {}

\* The other representation of the same exception date.
OtherRepresentation(e) ==
  IF e.kind = "str" THEN DictEntry(e.v) ELSE StrEntry(e.v.s)

HasOtherRepresentation(e) ==
  e.kind = "str" \/ (e.kind = "dict" /\ e.has /\ e.v.t = "str")

\* C4: an exception date excludes its date identically as a plain string
\* and as a record with a date field: replacing an entry by the other
\* representation leaves the result unchanged, and an excluded date never
\* appears in the result.
C4_ExceptionRepresentationIrrelevant ==
  pc = "expanded" =>
    /\ \A i \in 1..Len(pattern.exception_dates) :
         HasOtherRepresentation(pattern.exception_dates[i]) =>
           expand_pattern_dates(
             [pattern EXCEPT !.exception_dates[i] =
                OtherRepresentation(pattern.exception_dates[i])]) = expanded
    /\ expanded.dates \cap ParsedExceptions(pattern) = {}

\* A record exception falling on a weekday of the pattern inside its range.
C4_RecordExceptionExcludes ==
  /\ pc = "expanded"
  /\ expanded.exc = "none"
  /\ expanded.dates # {}
  /\ \E i \in 1..Len(pattern.exception_dates) :
       LET e == pattern.exception_dates[i]
       IN  /\ e.kind = "dict"
           /\ EntryDate(e) \in BeginOf(pattern)..EndOf(pattern)
           /\ Weekday(EntryDate(e)) \in WeekdayUnion(pattern)
           /\ EntryDate(e) \notin expanded.dates

\* The abbreviations of the weekdays, Monday first.
Abbreviations ==
  <<<<"m", "o", "n">>, <<"t", "u", "e">>, <<"w", "e", "d">>, <<"t", "h", "u">>,
    <<"f", "r", "i">>, <<"s", "a", "t">>, <<"s", "u", "n">>>>

\* The weekdays a comma-separated segment is recognised as: those whose
\* abbreviation is the lower-cased first three characters of the trimmed
\* segment.
RecognisedAs(segment) ==
  {n \in 0..6 : Prefix(Lower(Strip(segment)), 3) = Abbreviations[n + 1]}

\* The weekdays named by a weekdays text, segment by segment.
NamedWeekdays(w) ==
  UNION {RecognisedAs(Split(w)[i]) : i \in 1..Len(Split(w))}

\* The weekdays named by all the pattern_dates entries of a pattern.
NamedByPattern(p) ==
  UNION {NamedWeekdays(p.pattern_dates[i].weekdays) :
           i \in 1..Len(p.pattern_dates)}

\* Every entry of the pattern is read as the weekdays its recognised
\* segments name, in the order of the segments.
TokensReadAsClaimed(p) ==
  \A i \in 1..Len(p.pattern_dates) :
    LET w == p.pattern_dates[i].weekdays
        parts == Split(w)
        recognised == SelectSeq(parts, LAMBDA part : RecognisedAs(part) # {})
    IN  /\ SeqToSet(parse_weekdays(w)) = NamedWeekdays(w)
        /\ Len(parse_weekdays(w)) = Len(recognised)
        /\ \A k \in 1..Len(recognised) :
             parse_weekdays(w)[k] \in RecognisedAs(recognised[k])

C21_Case ==
  /\ pc = "expanded"
  /\ BeginOf(pattern) # NoDate
  /\ EndOf(pattern) # NoDate
  /\ NamedByPattern(pattern) = {}

\* C21: a pattern whose pattern_dates entries resolve to no weekday at all
\* (no entries, empty weekday strings, only unrecognised tokens) expands to
\* the empty set even with a valid date range; a weekday token is
\* recognised only by the lower-cased first three characters of its trimmed
\* comma-separated segment matching one of mon, tue, wed, thu, fri, sat,
\* sun, and unrecognised tokens are ignored without affecting the
\* recognised ones.
C21_NoWeekdayGivesEmptySet ==
  /\ C21_Case => expanded = [exc |-> "none", dates |-> {}]
  /\ pc = "expanded" => TokensReadAsClaimed(pattern)

\* What holds instead: the tokens are read as claimed, and a pattern
\* without weekday returns the empty set whenever the call returns; it
\* raises only on an exception record whose date is not text, on a week
\* token that int() rejects, or on a range that ends on date.max.
C21_NoWeekdayReturnsEmptyOrRaises ==
  /\ pc = "expanded" => TokensReadAsClaimed(pattern)
  /\ C21_Case =>
       /\ expanded.dates = {}
       /\ expanded.exc # "none" =>
            \/ \E i \in 1..Len(pattern.exception_dates) :
                 /\ pattern.exception_dates[i].kind = "dict"
                 /\ DictGetDate(pattern.exception_dates[i]).t = "int"
            \/ \E i \in 1..Len(pattern.weeks_of_month) :
                 pattern.weeks_of_month[i] \in SuperscriptDigits
            \/ EndOf(pattern) = DateMax

\* A valid range of several days whose only entry holds unrecognised
\* tokens: nothing comes back.
C21_JunkTokensOverValidRange ==
  /\ C21_Case
  /\ BeginOf(pattern) < EndOf(pattern)
  /\ pattern.pattern_dates = <<PD(W_Junk)>>
  /\ expanded = [exc |-> "none", dates |-> {}]

\* A pattern without weekday raised.
C21_NoWeekdayRaised ==
  /\ C21_Case
  /\ pattern.pattern_dates = <<>>
  /\ expanded.exc # "none"

\* The same pattern without week-of-month filter.
WithoutWeeks(p) == [p EXCEPT !.weeks_of_month = <<>>]

\* The trimmed comma-separated segments of weeks_of_month.
WeekTokens(p) ==
  {Strip(Split(p.weeks_of_month)[i]) : i \in 1..Len(Split(p.weeks_of_month))}

\* A 1-based positive integer in decimal digits.
ValidWeekToken(t) == t # <<>> /\ AllDigits(t) /\ DecimalValue(t) >= 1

C22_Case ==
  /\ pc = "expanded"
  /\ pattern.weeks_of_month # <<>>
  /\ \A t \in WeekTokens(pattern) : ~ValidWeekToken(t)

\* C22: when weeks_of_month is non-empty but contains no valid 1-based
\* positive-integer token, expand_pattern_dates treats the filter as
\* unset: its result equals the result for the same pattern with
\* weeks_of_month empty.
C22_InvalidWeeksMeanNoFilter ==
  C22_Case => expanded = expand_pattern_dates(WithoutWeeks(pattern))

\* What holds instead: the filter is unset when no token is made of
\* digits; a token of digits that is no positive integer (0) filters every
\* date out.
C22_OnlyDigitlessWeeksMeanNoFilter ==
  C22_Case =>
    IF \A t \in WeekTokens(pattern) : ~IsDigitStr(t)
    THEN expanded = expand_pattern_dates(WithoutWeeks(pattern))
    ELSE expanded.dates = {}

\* A filter of letters left the dates of the unfiltered pattern in place.
C22_LettersIgnored ==
  /\ C22_Case
  /\ \A t \in WeekTokens(pattern) : ~IsDigitStr(t)
  /\ expanded.exc = "none"
  /\ Cardinality(expanded.dates) >= 2

\* The filter "0" removed every date of a pattern that has dates without
\* it.
C22_ZeroFiltersEverything ==
  /\ C22_Case
  /\ pattern.weeks_of_month = <<"0">>
  /\ expanded = [exc |-> "none", dates |-> {}]
  /\ expand_pattern_dates(WithoutWeeks(pattern)).dates # {}

(***************************************************************************)
(* activity_meeting_dates                                                  *)
(***************************************************************************)

\* meeting_info is None
NoMeetingInfo ==
  [is_none |-> TRUE, activity_id |-> 0, no_meeting_dates |-> FALSE,
   activity_patterns |-> <<>>]

MeetingInfo(id, flag, patterns) ==
  [is_none |-> FALSE, activity_id |-> id, no_meeting_dates |-> flag,
   activity_patterns |-> patterns]

\* calendar.py 186-188: the union of the expansions, pattern by pattern; an
\* exception raised by one expansion ends the call.
RECURSIVE UnionOfExpansions(_, _)
RECURSIVE UnionStep(_, _, _)
UnionStep(patterns, dates, r) ==
  IF r.exc # "none" THEN [exc |-> r.exc, dates |-> {}]
  ELSE UnionOfExpansions(Tail(patterns), dates \cup r.dates)

UnionOfExpansions(patterns, dates) ==
  IF patterns = <<>> THEN [exc |-> "none", dates |-> dates]
  ELSE UnionStep(patterns, dates, expand_pattern_dates(Head(patterns)))

\* calendar.py 183-184 and 192-194: the start date, when it parses.
StartDateSet(a) ==
  LET d == parse_iso(StrVal(a.date_range_start)).date
  IN  IF d # NoDate THEN {d} ELSE {}

\* calendar.py 190-196: the start date when the patterns gave nothing; r is
\* the outcome of the loop over the patterns.
FallbackIfEmpty(a, r) ==
  IF r.exc # "none" THEN r
  ELSE IF r.dates = {} THEN [exc |-> "none", dates |-> StartDateSet(a)]
  ELSE r

\* activity_meeting_dates without the fallback of lines 191-194: patterns
\* that give nothing give the empty set.
activity_meeting_dates_NoFallback(a, mi) ==
  IF mi.is_none \/ mi.no_meeting_dates
  THEN [exc |-> "none", dates |-> StartDateSet(a)]
  ELSE UnionOfExpansions(mi.activity_patterns, {})

activity_meeting_dates(a, mi) ==
  IF mi.is_none \/ mi.no_meeting_dates
  THEN [exc |-> "none", dates |-> StartDateSet(a)]
  ELSE FallbackIfEmpty(a, UnionOfExpansions(mi.activity_patterns, {}))

(***************************************************************************)
(* Inputs of the meeting-date resolution                                   *)
(***************************************************************************)

\* The number of patterns in an enumerated meeting info.
MaxPatterns == 2

T_1000 == <<"1", "0", ":", "0", "0", ":", "0", "0">>

T_1130 == <<"1", "1", ":", "3", "0", ":", "0", "0">>

T_09 == <<"0", "9", ":", "0">>

Pattern(b, e, w, x, pds) ==
  [beginning_date |-> b, ending_date |-> e, weeks_of_month |-> w,
   exception_dates |-> x, pattern_dates |-> pds]

\* Mondays and Wednesdays of the week of 2026-03-16, with a time of day.
P_MonWed ==
  Pattern(IsoStr(2026, 3, 16), IsoStr(2026, 3, 22), <<>>, <<>>,
          <<[weekdays |-> W_MonWed, starting_time |-> T_1000,
             ending_time |-> T_1130]>>)

\* A valid range without weekdays: expands to nothing.
P_NoWeekdays ==
  Pattern(IsoStr(2026, 3, 16), IsoStr(2026, 3, 22), <<>>, <<>>,
          <<[weekdays |-> <<>>, starting_time |-> <<>>, ending_time |-> T_09]>>)

\* An unparsable beginning date.
P_BadBegin == Pattern(NotADate, IsoStr(2026, 3, 22), <<>>, <<>>, <<PD(W_Mon)>>)

\* Beginning after ending.
P_Reversed ==
  Pattern(IsoStr(2026, 3, 22), IsoStr(2026, 3, 16), <<>>, <<>>, <<PD(W_Mon)>>)

\* Mondays across the turn of the year: 2026-12-28 and 2027-01-04.
P_YearEnd ==
  Pattern(IsoStr(2026, 12, 28), IsoStr(2027, 1, 5), <<>>, <<>>,
          <<[weekdays |-> W_Mon, starting_time |-> T_09, ending_time |-> <<>>]>>)

\* The first Monday of May 2026, after an exception on the Wednesday.
P_May ==
  Pattern(IsoStr(2026, 5, 1), IsoStr(2026, 5, 31), <<"1">>,
          <<DictEntry(StrVal(IsoStr(2026, 5, 6)))>>, <<PD(W_MonWed)>>)

\* A range ending on date.max.
P_DateMax ==
  Pattern(IsoStr(9999, 12, 27), IsoStr(9999, 12, 31), <<>>, <<>>, <<PD(W_Mon)>>)

\* An exception record whose date field holds a number.
P_IntException ==
  Pattern(IsoStr(2026, 3, 16), IsoStr(2026, 3, 22), <<>>,
          <<DictEntry(IntVal(5))>>, <<PD(W_Mon)>>)

\* A reversed range whose second and third entries have a time of day.
P_LateSlot ==
  Pattern(IsoStr(2026, 3, 22), IsoStr(2026, 3, 16), <<>>, <<>>,
          <<PD(W_Mon),
            [weekdays |-> W_Mon, starting_time |-> T_1130,
             ending_time |-> T_1000],
            [weekdays |-> W_Mon, starting_time |-> T_09,
             ending_time |-> <<>>]>>)

MeetingPatterns ==
  {P_MonWed, P_NoWeekdays, P_BadBegin, P_Reversed, P_YearEnd, P_May,
   P_DateMax, P_IntException}

NoLink == [is_none |-> TRUE, href |-> "", label |-> ""]

Link(href, label) == [is_none |-> FALSE, href |-> href, label |-> label]

\* An ActivityItem; the display fields depend on the id only.
Activity(id, start) ==
  [id |-> id,
   name |-> IF id = 1 THEN "Swim" ELSE "Yoga",
   number |-> IF id = 1 THEN "1201.101" ELSE "",
   date_range_start |-> start,
   date_range_end |-> IsoStr(2026, 6, 30),
   location |-> IF id = 1 THEN NoLink ELSE Link("", "Pool"),
   ages |-> IF id = 1 THEN "5 - 11y" ELSE "",
   total_open |-> IF id = 1 THEN [is_none |-> TRUE, n |-> 0]
                  ELSE [is_none |-> FALSE, n |-> 3],
   action_link |-> IF id = 1 THEN NoLink ELSE Link("/enroll/2", "Waitlist")]

StartDates ==
  {<<>>, NotADate, IsoStr(2026, 3, 16), IsoStr(2026, 3, 17) \o TimeSuffix,
   IsoStr(9999, 12, 31)}

InitResolve ==
  /\ pc = "input"
  /\ NonCalendarIdle
  /\ activity \in {Activity(1, sd) : sd \in StartDates}
  /\ meeting_info \in
       {NoMeetingInfo} \cup
       {MeetingInfo(1, f, ps) :
          f \in BOOLEAN, ps \in SeqsUpTo(MeetingPatterns, MaxPatterns)}
  /\ resolved = NoResult
  /\ pattern = EmptyPattern
  /\ expanded = NoResult
  /\ activities = <<>>
  /\ meeting_dates = <<>>
  /\ today = NoDate
  /\ months = <<>>

Resolve ==
  /\ pc = "input"
  /\ UNCHANGED nonCalendarVars
  /\ resolved' = activity_meeting_dates(activity, meeting_info)
  /\ pc' = "resolved"
  /\ UNCHANGED <<pattern, expanded, activity, meeting_info, activities,
                 meeting_dates, today, months>>

NextResolve == Resolve

SpecResolve == InitResolve /\ [][NextResolve]_vars

\* The start date of the activity as a set: empty when it does not parse.
StartDateOrNothing(a) ==
  {FromIsoFormat(Prefix(a.date_range_start, 10))} \ {NoDate}

AllExpansionsEmpty(mi) ==
  \A i \in 1..Len(mi.activity_patterns) :
    expand_pattern_dates(mi.activity_patterns[i]) = [exc |-> "none", dates |-> {}]

\* C5: activity_meeting_dates returns exactly {start date} (the empty set
\* when the start date is unparsable) when meeting_info is None, when
\* no_meeting_dates is true whatever the patterns contain, and when the
\* union of the expansions of all patterns is empty.
C5_FallbackToStartDate ==
  (/\ pc = "resolved"
   /\ \/ meeting_info.is_none
      \/ meeting_info.no_meeting_dates
      \/ AllExpansionsEmpty(meeting_info))
  => resolved = [exc |-> "none", dates |-> StartDateOrNothing(activity)]

\* Patterns are present, every one expands to nothing, and the start date
\* is what comes back.
C5_FellBackFromEmptyPatterns ==
  /\ pc = "resolved"
  /\ ~meeting_info.is_none
  /\ ~meeting_info.no_meeting_dates
  /\ Len(meeting_info.activity_patterns) = 2
  /\ AllExpansionsEmpty(meeting_info)
  /\ resolved.dates = {Ymd2Ord(2026, 3, 17)}

\* no_meeting_dates set on patterns that would produce dates or raise.
C5_FlagOverridesPatterns ==
  /\ pc = "resolved"
  /\ meeting_info.no_meeting_dates
  /\ meeting_info.activity_patterns = <<P_MonWed, P_DateMax>>
  /\ resolved.dates = {Ymd2Ord(2026, 3, 16)}

\* The expansion of pattern i of the meeting info.
ExpansionOf(mi, i) == expand_pattern_dates(mi.activity_patterns[i])

SomeExpansionNonEmpty(mi) ==
  \E i \in 1..Len(mi.activity_patterns) :
    ExpansionOf(mi, i).exc = "none" /\ ExpansionOf(mi, i).dates # {}

NoExpansionRaises(mi) ==
  \A i \in 1..Len(mi.activity_patterns) : ExpansionOf(mi, i).exc = "none"

\* The result is the union of the expansions, and holds the start date
\* only if some pattern produces it.
IsUnionOfExpansions(a, mi, r) ==
  /\ r.exc = "none"
  /\ r.dates =
       UNION {ExpansionOf(mi, i).dates : i \in 1..Len(mi.activity_patterns)}
  /\ \A d \in StartDateOrNothing(a) :
       d \in r.dates =>
         \E i \in 1..Len(mi.activity_patterns) : d \in ExpansionOf(mi, i).dates

\* C20: when meeting_info is present, no_meeting_dates is false and at
\* least one pattern expands to a non-empty set, activity_meeting_dates
\* returns exactly the union of expand_pattern_dates over all patterns of
\* the activity; the start date of the activity is in the result only if
\* some pattern produces it.
C20_UnionOfPatternExpansions ==
  (/\ pc = "resolved"
   /\ ~meeting_info.is_none
   /\ ~meeting_info.no_meeting_dates
   /\ SomeExpansionNonEmpty(meeting_info))
  => IsUnionOfExpansions(activity, meeting_info, resolved)

\* What holds instead: the same, when no expansion raises; when one does,
\* the call raises the same exception.
C20_UnionWhenNoExpansionRaises ==
  (/\ pc = "resolved"
   /\ ~meeting_info.is_none
   /\ ~meeting_info.no_meeting_dates
   /\ SomeExpansionNonEmpty(meeting_info))
  => IF NoExpansionRaises(meeting_info)
     THEN IsUnionOfExpansions(activity, meeting_info, resolved)
     ELSE /\ resolved.exc # "none"
          /\ \E i \in 1..Len(meeting_info.activity_patterns) :
               ExpansionOf(meeting_info, i).exc = resolved.exc

\* Two patterns that both produce dates, neither the start date of the
\* activity: the result is the four dates and leaves the start date out.
C20_UnionWithoutStartDate ==
  /\ pc = "resolved"
  /\ ~meeting_info.no_meeting_dates
  /\ meeting_info.activity_patterns = <<P_MonWed, P_YearEnd>>
  /\ StartDateOrNothing(activity) = {Ymd2Ord(2026, 3, 17)}
  /\ resolved.dates =
       {Ymd2Ord(2026, 3, 16), Ymd2Ord(2026, 3, 18), Ymd2Ord(2026, 12, 28),
        Ymd2Ord(2027, 1, 4)}

\* A pattern that produces dates next to one whose expansion raises: the
\* call raises.
C20_RaisedNextToDates ==
  /\ pc = "resolved"
  /\ ~meeting_info.is_none
  /\ ~meeting_info.no_meeting_dates
  /\ meeting_info.activity_patterns = <<P_MonWed, P_IntException>>
  /\ resolved.exc = "TypeError"

C27_Case ==
  /\ pc = "expanded"
  /\ BeginOf(pattern) # NoDate
  /\ EndOf(pattern) # NoDate
  /\ BeginOf(pattern) > EndOf(pattern)

\* An activity that starts on 2026-03-17 and has only the pattern, twice.
OnlyThisPattern ==
  activity_meeting_dates(Activity(1, IsoStr(2026, 3, 17)),
                         MeetingInfo(1, FALSE, <<pattern, pattern>>))

\* C27: when the beginning date of a pattern is later than its ending
\* date, expand_pattern_dates terminates without error and returns the
\* empty set, so an activity having only such patterns is placed on its
\* own start date by activity_meeting_dates.
C27_ReversedRangeGivesEmptySet ==
  C27_Case =>
    /\ expanded = [exc |-> "none", dates |-> {}]
    /\ OnlyThisPattern = [exc |-> "none", dates |-> {Ymd2Ord(2026, 3, 17)}]

\* What holds instead: a reversed range returns the empty set, and the
\* activity is placed on its start date, unless an exception record holds
\* a date that is not text or a week token is one that int() rejects; then
\* both calls raise.
C27_ReversedRangeEmptyOrRaises ==
  C27_Case =>
    IF \/ \E i \in 1..Len(pattern.exception_dates) :
            /\ pattern.exception_dates[i].kind = "dict"
            /\ DictGetDate(pattern.exception_dates[i]).t = "int"
       \/ \E i \in 1..Len(pattern.weeks_of_month) :
            pattern.weeks_of_month[i] \in SuperscriptDigits
    THEN expanded.exc # "none" /\ OnlyThisPattern.exc = expanded.exc
    ELSE /\ expanded = [exc |-> "none", dates |-> {}]
         /\ OnlyThisPattern = [exc |-> "none", dates |-> {Ymd2Ord(2026, 3, 17)}]

\* A reversed range with weekdays, a week filter and an exception date
\* returned the empty set.
C27_ReversedRangeReturned ==
  /\ C27_Case
  /\ WeekdayUnion(pattern) # {}
  /\ pattern.weeks_of_month # <<>>
  /\ pattern.exception_dates # <<>>
  /\ expanded = [exc |-> "none", dates |-> {}]

\* A reversed range raised.
C27_ReversedRangeRaised ==
  /\ C27_Case
  /\ expanded.exc = "TypeError"

(***************************************************************************)
(* build_calendar_data                                                     *)
(***************************************************************************)

PaletteSize == 20

\* The palette, in the order of the list; Python position i is element
\* i + 1.
PILL_COLORS ==
  <<"#1a5276", "#117a65", "#784212", "#6c3483", "#1a618f",
    "#922b21", "#7d6608", "#1e8449", "#d35400", "#2e4053",
    "#148f77", "#b03a2e", "#1f618d", "#7b241c", "#196f3d",
    "#a04000", "#4a235a", "#0e6655", "#7e5109", "#2874a6">>

MONTH_NAMES ==
  <<"January", "February", "March", "April", "May", "June", "July", "August",
    "September", "October", "November", "December">>

\* meeting_dates.get(activity.id)
DictGet(md, id) == IF id \in DOMAIN md THEN md[id] ELSE NoMeetingInfo

\* calendar.py 232-234: the (start, end) of the pattern_dates that have a
\* starting time.
RECURSIVE SlotsOfPatternDates(_)
SlotsOfPatternDates(pds) ==
  IF pds = <<>> THEN <<>>
  ELSE (IF Head(pds).starting_time # <<>>
        THEN <<<<Head(pds).starting_time, Head(pds).ending_time>>>>
        ELSE <<>>) \o SlotsOfPatternDates(Tail(pds))

\* calendar.py 231-234
RECURSIVE SlotsOfPatterns(_)
SlotsOfPatterns(patterns) ==
  IF patterns = <<>> THEN <<>>
  ELSE SlotsOfPatternDates(Head(patterns).pattern_dates)
         \o SlotsOfPatterns(Tail(patterns))

\* calendar.py 229-234
TimeSlots(mi) == IF mi.is_none THEN <<>> ELSE SlotsOfPatterns(mi.activity_patterns)

\* UniqueSlots with a new slot put in front of the list.
RECURSIVE UniqueSlots_Prepend(_, _)
UniqueSlots_Prepend(time_slots, unique_slots) ==
  IF time_slots = <<>> THEN unique_slots
  ELSE UniqueSlots_Prepend(Tail(time_slots),
                           IF Head(time_slots) \in SeqToSet(unique_slots)
                           THEN unique_slots
                           ELSE <<Head(time_slots)>> \o unique_slots)

\* calendar.py 237-242: first occurrences, in order.
RECURSIVE UniqueSlots(_, _)
UniqueSlots(time_slots, unique_slots) ==
  IF time_slots = <<>> THEN unique_slots
  ELSE UniqueSlots(Tail(time_slots),
                   IF Head(time_slots) \in SeqToSet(unique_slots)
                   THEN unique_slots
                   ELSE Append(unique_slots, Head(time_slots)))

\* CalendarEvent with the colour taken by the activity id instead of the
\* position in the list.
CalendarEvent_ColourById(index, a, mi) ==
  LET unique_slots == UniqueSlots(TimeSlots(mi), <<>>)
  IN  [id |-> a.id,
       name |-> a.name,
       color |-> PILL_COLORS[(a.id % Len(PILL_COLORS)) + 1],
       location |-> IF a.location.is_none THEN "" ELSE a.location.label,
       ages |-> a.ages,
       total_open |-> a.total_open,
       action_link_href |-> IF a.action_link.is_none THEN ""
                            ELSE a.action_link.href,
       action_link_label |-> IF a.action_link.is_none THEN "Enroll"
                             ELSE a.action_link.label,
       date_range_start |-> a.date_range_start,
       date_range_end |-> a.date_range_end,
       starting_time |-> IF unique_slots # <<>>
                         THEN Prefix(unique_slots[1][1], 5) ELSE <<>>,
       ending_time |-> IF unique_slots # <<>>
                       THEN Prefix(unique_slots[1][2], 5) ELSE <<>>,
       number |-> a.number]

\* calendar.py 225-265: the CalendarEvent of the activity at position index
\* (counted from 0).
CalendarEvent(index, a, mi) ==
  LET unique_slots == UniqueSlots(TimeSlots(mi), <<>>)
  IN  [id |-> a.id,
       name |-> a.name,
       color |-> PILL_COLORS[(index % Len(PILL_COLORS)) + 1],
       location |-> IF a.location.is_none THEN "" ELSE a.location.label,
       ages |-> a.ages,
       total_open |-> a.total_open,
       action_link_href |-> IF a.action_link.is_none THEN ""
                            ELSE a.action_link.href,
       action_link_label |-> IF a.action_link.is_none THEN "Enroll"
                             ELSE a.action_link.label,
       date_range_start |-> a.date_range_start,
       date_range_end |-> a.date_range_end,
       starting_time |-> IF unique_slots # <<>>
                         THEN Prefix(unique_slots[1][1], 5) ELSE <<>>,
       ending_time |-> IF unique_slots # <<>>
                       THEN Prefix(unique_slots[1][2], 5) ELSE <<>>,
       number |-> a.number]

SetMin(S) == CHOOSE x \in S : \A y \in S : x <= y

SetMax(S) == CHOOSE x \in S : \A y \in S : y <= x

\* AddEvent with the latest date tracked by the comparison of the earliest
\* one (d < latest_date).
AddEvent_LatestTracksMin(acc, event, all_dates) ==
  [exc |-> "none",
   event_by_date |->
     [d \in DOMAIN acc.event_by_date \cup all_dates |->
        (IF d \in DOMAIN acc.event_by_date THEN acc.event_by_date[d] ELSE <<>>)
          \o (IF d \in all_dates THEN <<event>> ELSE <<>>)],
   earliest_date |->
     IF all_dates = {} THEN acc.earliest_date
     ELSE IF acc.earliest_date = NoDate \/ SetMin(all_dates) < acc.earliest_date
     THEN SetMin(all_dates) ELSE acc.earliest_date,
   latest_date |->
     IF all_dates = {} THEN acc.latest_date
     ELSE IF acc.latest_date = NoDate \/ SetMin(all_dates) < acc.latest_date
     THEN SetMin(all_dates) ELSE acc.latest_date]

\* AddEvent with the event inserted at the head of the list of its date.
AddEvent_Prepend(acc, event, all_dates) ==
  [exc |-> "none",
   event_by_date |->
     [d \in DOMAIN acc.event_by_date \cup all_dates |->
        (IF d \in all_dates THEN <<event>> ELSE <<>>)
          \o (IF d \in DOMAIN acc.event_by_date THEN acc.event_by_date[d] ELSE <<>>)],
   earliest_date |->
     IF all_dates = {} THEN acc.earliest_date
     ELSE IF acc.earliest_date = NoDate \/ SetMin(all_dates) < acc.earliest_date
     THEN SetMin(all_dates) ELSE acc.earliest_date,
   latest_date |->
     IF all_dates = {} THEN acc.latest_date
     ELSE IF acc.latest_date = NoDate \/ SetMax(all_dates) > acc.latest_date
     THEN SetMax(all_dates) ELSE acc.latest_date]

\* calendar.py 269-276: one event appended under each of its dates, and the
\* date bounds widened.
AddEvent(acc, event, all_dates) ==
  [exc |-> "none",
   event_by_date |->
     [d \in DOMAIN acc.event_by_date \cup all_dates |->
        (IF d \in DOMAIN acc.event_by_date THEN acc.event_by_date[d] ELSE <<>>)
          \o (IF d \in all_dates THEN <<event>> ELSE <<>>)],
   earliest_date |->
     IF all_dates = {} THEN acc.earliest_date
     ELSE IF acc.earliest_date = NoDate \/ SetMin(all_dates) < acc.earliest_date
     THEN SetMin(all_dates) ELSE acc.earliest_date,
   latest_date |->
     IF all_dates = {} THEN acc.latest_date
     ELSE IF acc.latest_date = NoDate \/ SetMax(all_dates) > acc.latest_date
     THEN SetMax(all_dates) ELSE acc.latest_date]

\* calendar.py 224-276: the loop over enumerate(activities) from position
\* index on; CollectStep is the body of the loop once all_dates (line 267)
\* is r, and an exception raised there ends the call.
RECURSIVE CollectEvents(_, _, _, _)
RECURSIVE CollectStep(_, _, _, _, _)
CollectStep(acts, md, index, acc, r) ==
  IF r.exc # "none" THEN [acc EXCEPT !.exc = r.exc]
  ELSE CollectEvents(acts, md, index + 1,
                     AddEvent(acc,
                              CalendarEvent(index, acts[index + 1],
                                            DictGet(md, acts[index + 1].id)),
                              r.dates))

CollectEvents(acts, md, index, acc) ==
  IF index >= Len(acts) THEN acc
  ELSE CollectStep(acts, md, index, acc,
                   activity_meeting_dates(acts[index + 1],
                                          DictGet(md, acts[index + 1].id)))

NoEvents ==
  [exc |-> "none", event_by_date |-> <<>>, earliest_date |-> NoDate,
   latest_date |-> NoDate]

\* calendar.monthcalendar(year, month): the weeks of the month, Monday
\* first, each of 7 day numbers, 0 outside the month.
monthcalendar(year, month) ==
  LET first  == Weekday(Ymd2Ord(year, month, 1))
      ndays  == DaysInMonth(year, month)
      nweeks == (first + ndays + 6) \div 7
  IN  [w \in 1..nweeks |->
         [c \in 1..7 |->
            LET day_num == (w - 1) * 7 + c - first
            IN  IF day_num >= 1 /\ day_num <= ndays THEN day_num ELSE 0]]

\* The decimal digits of n without padding.
RECURSIVE NumStr(_)
NumStr(n) == IF n < 10 THEN <<DigitChar(n)>>
             ELSE Append(NumStr(n \div 10), DigitChar(n % 10))

\* CalendarDay with iso_date formatted from the three numbers without
\* zero padding.
CalendarDay_UnpaddedIso(year, month, day_num, event_by_date, tod) ==
  IF day_num = 0
  THEN [day |-> 0, in_month |-> FALSE, iso_date |-> <<>>, is_today |-> FALSE,
        events |-> <<>>]
  ELSE LET d == Ymd2Ord(year, month, day_num)
       IN  [day |-> day_num,
            in_month |-> TRUE,
            iso_date |-> NumStr(year) \o <<"-">> \o NumStr(month) \o <<"-">>
                           \o NumStr(day_num),
            is_today |-> (d = tod),
            events |-> IF d \in DOMAIN event_by_date THEN event_by_date[d]
                       ELSE <<>>]

\* calendar.py 300-320: the CalendarDay of one day number of the grid.
CalendarDay(year, month, day_num, event_by_date, tod) ==
  IF day_num = 0
  THEN [day |-> 0, in_month |-> FALSE, iso_date |-> <<>>, is_today |-> FALSE,
        events |-> <<>>]
  ELSE LET d == Ymd2Ord(year, month, day_num)
       IN  [day |-> day_num,
            in_month |-> TRUE,
            iso_date |-> IsoFormat(d),
            is_today |-> (d = tod),
            events |-> IF d \in DOMAIN event_by_date THEN event_by_date[d]
                       ELSE <<>>]

\* calendar.py 289-330: the CalendarMonth of the month that starts on
\* cur_month.
CalendarMonth(cur_month, event_by_date, tod) ==
  LET year  == YearOf(cur_month)
      month == MonthOf(cur_month)
      cal   == monthcalendar(year, month)
  IN  [year |-> year,
       month |-> month,
       name |-> <<MONTH_NAMES[month], year>>,
       weeks |-> [w \in 1..Len(cal) |->
                    [c \in 1..Len(cal[w]) |->
                       CalendarDay(year, month, cal[w][c], event_by_date, tod)]]]

\* calendar.py 288-336: the loop over the months; datetime.date(year + 1, 1, 1)
\* raises ValueError after December of MAXYEAR.
RECURSIVE MonthLoop(_, _, _, _, _)
MonthLoop(cur_month, end_month, event_by_date, tod, ms) ==
  IF cur_month > end_month THEN [exc |-> "none", months |-> ms]
  ELSE LET year  == YearOf(cur_month)
           month == MonthOf(cur_month)
           ms2   == Append(ms, CalendarMonth(cur_month, event_by_date, tod))
       IN  IF month = 12
           THEN IF year + 1 > MAXYEAR
                THEN [exc |-> "ValueError", months |-> <<>>]
                ELSE MonthLoop(Ymd2Ord(year + 1, 1, 1), end_month,
                               event_by_date, tod, ms2)
           ELSE MonthLoop(Ymd2Ord(year, month + 1, 1), end_month,
                          event_by_date, tod, ms2)

\* date.replace(day=1)
FirstOfMonth(d) == Ymd2Ord(YearOf(d), MonthOf(d), 1)

\* calendar.py 278-338 with the current month shown when no date was found.
MonthsOfEvents_CurrentMonth(ev, tod) ==
  IF ev.exc # "none" THEN [exc |-> ev.exc, months |-> <<>>]
  ELSE IF ev.earliest_date = NoDate \/ ev.latest_date = NoDate
  THEN MonthLoop(FirstOfMonth(tod), FirstOfMonth(tod), ev.event_by_date, tod, <<>>)
  ELSE MonthLoop(FirstOfMonth(ev.earliest_date), FirstOfMonth(ev.latest_date),
                 ev.event_by_date, tod, <<>>)

\* calendar.py 278-338: the months of the events collected by the loop over
\* the activities.
MonthsOfEvents(ev, tod) ==
  IF ev.exc # "none" THEN [exc |-> ev.exc, months |-> <<>>]
  ELSE IF ev.earliest_date = NoDate \/ ev.latest_date = NoDate
  THEN [exc |-> "none", months |-> <<>>]
  ELSE MonthLoop(FirstOfMonth(ev.earliest_date), FirstOfMonth(ev.latest_date),
                 ev.event_by_date, tod, <<>>)

build_calendar_data(acts, md, tod) ==
  IF acts = <<>> THEN [exc |-> "none", months |-> <<>>]
  ELSE MonthsOfEvents(CollectEvents(acts, md, 0, NoEvents), tod)

(***************************************************************************)
(* Inputs of the calendar assembler                                        *)
(***************************************************************************)

\* The number of activities in an enumerated activity list.
MaxActs == 2

ActivityIds == {1, 2}

\* The start dates of an id: one that does not parse and one that does.
BuildStartDates(id) ==
  IF id = 1 THEN {<<>>, IsoStr(2026, 3, 16)}
  ELSE {NotADate, IsoStr(2026, 4, 30) \o TimeSuffix}

BuildActivities ==
  UNION {{Activity(id, sd) : sd \in BuildStartDates(id)} : id \in ActivityIds}

\* Activities of the last two months of MAXYEAR; they are enumerated apart
\* from the others, the months between 2026 and 9999 being too many to build.
LastYearActivities ==
  {Activity(1, IsoStr(9999, 12, 15)), Activity(2, IsoStr(9999, 11, 30))}

\* The meeting infos an id is mapped to.
MeetingInfosOf(id) ==
  IF id = 1
  THEN {MeetingInfo(1, FALSE, <<P_MonWed>>),
        MeetingInfo(1, TRUE, <<P_MonWed>>),
        MeetingInfo(1, FALSE, <<P_NoWeekdays, P_Reversed>>),
        MeetingInfo(1, FALSE, <<P_MonWed, P_May>>),
        MeetingInfo(1, FALSE, <<P_DateMax>>)}
  ELSE {MeetingInfo(2, FALSE, <<P_MonWed>>),
        MeetingInfo(2, FALSE, <<P_YearEnd>>),
        MeetingInfo(2, FALSE, <<P_May, P_NoWeekdays, P_LateSlot>>)}

\* The dicts from activity id to meeting info; an id may be absent.
MeetingDicts ==
  UNION {{md \in [ids -> UNION {MeetingInfosOf(id) : id \in ids}] :
            \A id \in ids : md[id] \in MeetingInfosOf(id)} :
         ids \in SUBSET ActivityIds}

Todays == {Ymd2Ord(2026, 3, 16), Ymd2Ord(2026, 7, 1)}

NoMonths == [exc |-> "none", months |-> <<>>]

\* The calendar functions are not called.
CalendarIdle ==
  /\ pattern = EmptyPattern
  /\ expanded = NoResult
  /\ activity = <<>>
  /\ meeting_info = NoMeetingInfo
  /\ resolved = NoResult
  /\ activities = <<>>
  /\ meeting_dates = <<>>
  /\ today = NoDate
  /\ months = NoMonths

\* The id of position k of a page: always 1, always 2, or 1 and 2 in turn.
IdSchemes == {"one", "two", "alternate"}

PageId(scheme, k) ==
  IF scheme = "one" THEN 1
  ELSE IF scheme = "two" THEN 2
  ELSE (k % 2) + 1

\* The positions of a page whose start date does not parse.
UndatedPositions == {{}, {1}, {2, 3}, {PaletteSize}}

\* A page of n activities: position k starts on day k of March 2026.
PageOfActivities(n, scheme, undated) ==
  [k \in 1..n |->
     Activity(PageId(scheme, k),
              IF k \in undated THEN NotADate ELSE IsoStr(2026, 3, k))]

\* Pages as long as the palette and one activity longer.
Pages ==
  {PageOfActivities(n, scheme, undated) :
     n \in {PaletteSize, PaletteSize + 1},
     scheme \in IdSchemes, undated \in UndatedPositions}

\* No meeting info at all, or the same pattern for every activity of id 1.
PageMeetingDicts == {<<>>, (1 :> MeetingInfo(1, FALSE, <<P_MonWed>>))}

InitBuild ==
  /\ pc = "input"
  /\ NonCalendarIdle
  /\ \/ /\ activities \in SeqsUpTo(BuildActivities, MaxActs)
        /\ meeting_dates \in MeetingDicts
     \/ /\ activities \in SeqsUpTo(LastYearActivities, MaxActs)
        /\ meeting_dates = <<>>
     \/ /\ activities \in Pages
        /\ meeting_dates \in PageMeetingDicts
  /\ today \in Todays
  /\ months = NoMonths
  /\ pattern = EmptyPattern
  /\ expanded = NoResult
  /\ activity = <<>>
  /\ meeting_info = NoMeetingInfo
  /\ resolved = NoResult

Build ==
  /\ pc = "input"
  /\ UNCHANGED nonCalendarVars
  /\ months' = build_calendar_data(activities, meeting_dates, today)
  /\ pc' = "built"
  /\ UNCHANGED <<pattern, expanded, activity, meeting_info, resolved,
                 activities, meeting_dates, today>>

NextBuild == Build

SpecBuild == InitBuild /\ [][NextBuild]_vars

(***************************************************************************)
(* Properties of the calendar assembler                                    *)
(***************************************************************************)

MeetingInfoAt(i) == DictGet(meeting_dates, activities[i].id)

\* The meeting dates activity i resolves to.
ResolvedAt(i) == activity_meeting_dates(activities[i], MeetingInfoAt(i))

EveryActivityResolves ==
  \A i \in 1..Len(activities) : ResolvedAt(i).exc = "none"

AllEventDates == UNION {ResolvedAt(i).dates : i \in 1..Len(activities)}

\* No parsable start date and no pattern that yields a date.
ResolvesToNothing(i) ==
  /\ StartDateOrNothing(activities[i]) = {}
  /\ \/ MeetingInfoAt(i).is_none
     \/ MeetingInfoAt(i).no_meeting_dates
     \/ AllExpansionsEmpty(MeetingInfoAt(i))

\* C6: build_calendar_data returns the empty list when the activity list
\* is empty, and when it is non-empty but no activity resolves to any
\* meeting date.
C6_NoDatesGivesEmptyCalendar ==
  (/\ pc = "built"
   /\ \A i \in 1..Len(activities) : ResolvesToNothing(i))
  => months = [exc |-> "none", months |-> <<>>]

\* Two activities, one of them with patterns, none with a date.
C6_ActivitiesWithoutDates ==
  /\ pc = "built"
  /\ Len(activities) = 2
  /\ \A i \in 1..Len(activities) : ResolvesToNothing(i)
  /\ \E i \in 1..Len(activities) :
       ~MeetingInfoAt(i).is_none /\ ~MeetingInfoAt(i).no_meeting_dates
  /\ months.months = <<>>

\* The count of a month since year 0: year * 12 + (month - 1).
MonthIndex(d) == YearOf(d) * 12 + (MonthOf(d) - 1)

\* The <<year, month>> pairs from the month of the earliest event date to
\* the month of the latest, one calendar month apart.
MonthSpan ==
  LET first == MonthIndex(SetMin(AllEventDates))
      last  == MonthIndex(SetMax(AllEventDates))
  IN  [k \in 1..(last - first + 1) |->
         <<(first + k - 1) \div 12, ((first + k - 1) % 12) + 1>>]

YearMonths(ms) == [k \in 1..Len(ms) |-> <<ms[k].year, ms[k].month>>]

C7_Case ==
  /\ pc = "built"
  /\ EveryActivityResolves
  /\ AllEventDates # {}

\* C7: for every input with at least one resolved meeting date, the month
\* list returned by build_calendar_data runs from the month of the minimum
\* event date to the month of the maximum event date and lists every month
\* in between exactly once, in increasing order, the year incremented at
\* December to January.
C7_MonthsSpanMinToMax ==
  C7_Case => (months.exc = "none" /\ YearMonths(months.months) = MonthSpan)

\* What remains of C7 when the call returns.
C7_ReturnedMonthsSpanMinToMax ==
  (C7_Case /\ months.exc = "none") => YearMonths(months.months) = MonthSpan

C7_SpanCrossesNewYear ==
  /\ C7_Case
  /\ months.exc = "none"
  /\ Len(months.months) >= 3
  /\ months.months[1].year < months.months[Len(months.months)].year

HasEvent(m) ==
  \E w \in 1..Len(m.weeks) : \E c \in 1..Len(m.weeks[w]) :
    m.weeks[w][c].events # <<>>

C9_GridCells ==
  pc = "built" =>
    \A k \in 1..Len(months.months) :
      LET m == months.months[k]
      IN  \A w \in 1..Len(m.weeks) :
            /\ Len(m.weeks[w]) = 7
            /\ \A c \in 1..Len(m.weeks[w]) :
                 LET cell == m.weeks[w][c]
                 IN  IF cell.day \in 1..DaysInMonth(m.year, m.month)
                     THEN /\ cell.in_month
                          /\ cell.iso_date = IsoStr(m.year, m.month, cell.day)
                     ELSE /\ cell.day = 0
                          /\ ~cell.in_month
                          /\ cell.iso_date = <<>>
                          /\ cell.events = <<>>

\* A returned month whose first week begins and whose last week ends
\* outside the month, with an event on an in-month day.
C9_PaddedMonthReturned ==
  /\ pc = "built"
  /\ months.exc = "none"
  /\ \E k \in 1..Len(months.months) :
       LET m == months.months[k]
       IN  /\ m.weeks[1][1].day = 0
           /\ m.weeks[Len(m.weeks)][7].day = 0
           /\ \E w \in 1..Len(m.weeks) : \E c \in 1..7 :
                m.weeks[w][c].in_month /\ m.weeks[w][c].events # <<>>

\* The <<pattern, entry>> positions of the pattern_dates entries of a
\* meeting info that have a non-empty starting time.
TimedEntries(mi) ==
  IF mi.is_none THEN {}
  ELSE {pe \in UNION {{<<i, j>> : j \in 1..Len(mi.activity_patterns[i].pattern_dates)} :
                        i \in 1..Len(mi.activity_patterns)} :
          mi.activity_patterns[pe[1]].pattern_dates[pe[2]].starting_time # <<>>}

\* Pattern order, then pattern_dates order.
Before(a, b) == a[1] < b[1] \/ (a[1] = b[1] /\ a[2] <= b[2])

\* The <<start, end>> shown for a meeting info: those of the first timed
\* entry cut to 5 characters, empty texts when there is none.
DisplayedTime(mi) ==
  IF TimedEntries(mi) = {} THEN <<<<>>, <<>>>>
  ELSE LET first == CHOOSE a \in TimedEntries(mi) :
                      \A b \in TimedEntries(mi) : Before(a, b)
           pd == mi.activity_patterns[first[1]].pattern_dates[first[2]]
       IN  <<Prefix(pd.starting_time, 5), Prefix(pd.ending_time, 5)>>

\* The events of all the cells of the months returned.
EventsShown ==
  UNION {UNION {UNION {SeqToSet(months.months[k].weeks[w][c].events) :
                         c \in 1..Len(months.months[k].weeks[w])} :
                  w \in 1..Len(months.months[k].weeks)} :
           k \in 1..Len(months.months)}

\* C23: each event of an activity carries a single time of day: the start
\* and end, each cut to its first 5 characters, of the first entry, in
\* pattern order then pattern_dates order, among the pattern_dates entries
\* of the activity that have a non-empty starting time; both are empty
\* when there is no such entry or no meeting info, and the same time is
\* shown on every date of the activity.
C23_SingleTimeOfDay ==
  pc = "built" =>
    \A e \in EventsShown :
      <<e.starting_time, e.ending_time>>
        = DisplayedTime(DictGet(meeting_dates, e.id))

\* An activity shown on a date whose time comes from the second entry of
\* its third pattern, a later entry having another time; and an activity
\* shown on two dates with the time of its pattern cut to 5 characters.
C23_TimeOfALaterEntry ==
  /\ pc = "built"
  /\ \E e \in EventsShown :
       /\ DictGet(meeting_dates, e.id).activity_patterns
            = <<P_May, P_NoWeekdays, P_LateSlot>>
       /\ e.starting_time = <<"1", "1", ":", "3", "0">>
       /\ e.ending_time = <<"1", "0", ":", "0", "0">>
  /\ \E e \in EventsShown :
       /\ e.starting_time = <<"1", "0", ":", "0", "0">>
       /\ e.ending_time = <<"1", "1", ":", "3", "0">>
       /\ \E k \in 1..Len(months.months) :
            Cardinality({wc \in (1..Len(months.months[k].weeks)) \X (1..7) :
                           e \in SeqToSet(months.months[k].weeks[wc[1]][wc[2]].events)})
              >= 2

\* The meeting dates of the first n activities, by position.
RECURSIVE ResolvedDates(_)
ResolvedDates(n) ==
  IF n = 0 THEN <<>>
  ELSE ResolvedDates(n - 1) \o <<ResolvedAt(n).dates>>

\* The events of the first n activities, by position.
RECURSIVE EventOfPosition(_)
EventOfPosition(n) ==
  IF n = 0 THEN <<>>
  ELSE EventOfPosition(n - 1)
         \o <<CalendarEvent(n - 1, activities[n], MeetingInfoAt(n))>>

\* The positions up to n, in input order, of the activities that meet on d.
RECURSIVE PositionsOn(_, _, _)
PositionsOn(d, n, dates) ==
  IF n = 0 THEN <<>>
  ELSE PositionsOn(d, n - 1, dates) \o (IF d \in dates[n] THEN <<n>> ELSE <<>>)

\* The events of date d: one per activity that meets on d, in input order.
EventsOn(d, dates, events) ==
  LET ps == PositionsOn(d, Len(activities), dates)
  IN  [j \in 1..Len(ps) |-> events[ps[j]]]

\* Every in-month cell carries the events of its date.
CellsCarryEventsOn(dates, events) ==
  \A k \in 1..Len(months.months) :
    LET m == months.months[k]
    IN  \A w \in 1..Len(m.weeks) : \A c \in 1..Len(m.weeks[w]) :
          LET cell == m.weeks[w][c]
          IN  cell.in_month =>
                cell.events =
                  EventsOn(Ymd2Ord(m.year, m.month, cell.day), dates, events)

\* C10: the in-month cell of a date d carries exactly the events of the
\* activities whose resolved meeting-date set contains d, one event per
\* such activity, in the order of the activities in the input list.
C10_CellEventsInInputOrder ==
  (pc = "built" /\ months.exc = "none") =>
    CellsCarryEventsOn(ResolvedDates(Len(activities)),
                       EventOfPosition(Len(activities)))

\* A day shared by two activities and a day of only the second one.
C10_SharedAndUnsharedDay ==
  /\ pc = "built"
  /\ months.exc = "none"
  /\ Len(activities) = 2
  /\ activities[1].id # activities[2].id
  /\ \E k \in 1..Len(months.months) :
       \E w \in 1..Len(months.months[k].weeks) : \E c \in 1..7 :
         LET ev == months.months[k].weeks[w][c].events
         IN  Len(ev) = 2 /\ ev[1].id = activities[1].id /\ ev[2].id = activities[2].id
  /\ \E k \in 1..Len(months.months) :
       \E w \in 1..Len(months.months[k].weeks) : \E c \in 1..7 :
         LET ev == months.months[k].weeks[w][c].events
         IN  Len(ev) = 1 /\ ev[1].id = activities[2].id

\* All the day cells of a list of weeks, of a list of months.
RECURSIVE CellsOfWeeks(_)
CellsOfWeeks(weeks) ==
  IF weeks = <<>> THEN <<>> ELSE Head(weeks) \o CellsOfWeeks(Tail(weeks))

RECURSIVE CellsOfMonths(_)
CellsOfMonths(ms) ==
  IF ms = <<>> THEN <<>>
  ELSE CellsOfWeeks(Head(ms).weeks) \o CellsOfMonths(Tail(ms))

\* The number of events over all the cells.
RECURSIVE EventCount(_)
EventCount(cells) ==
  IF cells = <<>> THEN 0
  ELSE Len(Head(cells).events) + EventCount(Tail(cells))

\* The sum of the sizes of the meeting-date sets.
RECURSIVE DateCount(_)
DateCount(dates) ==
  IF dates = <<>> THEN 0
  ELSE Cardinality(Head(dates)) + DateCount(Tail(dates))

\* How many times event e is listed in events.
Times(events, e) == Cardinality({j \in 1..Len(events) : events[j] = e})

\* Every date of every activity has exactly one in-month cell, which lists
\* the event of the activity once, and the cells hold as many events as
\* the activities have dates.
DatesKept(dates, events, cells) ==
  /\ \A i \in 1..Len(dates) : \A d \in dates[i] :
       LET at == {n \in 1..Len(cells) :
                    cells[n].in_month /\ cells[n].iso_date = IsoFormat(d)}
       IN  /\ Cardinality(at) = 1
           /\ \A n \in at : Times(cells[n].events, events[i]) = 1
  /\ EventCount(cells) = DateCount(dates)

\* C26: no meeting date is lost or duplicated by build_calendar_data: for
\* every activity and every date in its resolved meeting-date set, the
\* output contains exactly one in-month cell with that iso_date and that
\* cell lists the event of the activity exactly once, so the total number
\* of events over all cells equals the sum over the activities of the
\* sizes of their meeting-date sets.
C26_NoDateLostOrDuplicated ==
  pc = "built" =>
    DatesKept(ResolvedDates(Len(activities)), EventOfPosition(Len(activities)),
              CellsOfMonths(months.months))

\* What remains of C26 when the call returns.
C26_ReturnedCalendarKeepsEveryDate ==
  (pc = "built" /\ months.exc = "none") =>
    DatesKept(ResolvedDates(Len(activities)), EventOfPosition(Len(activities)),
              CellsOfMonths(months.months))

\* Two activities with five dates between them, in three months, one date
\* shared.
C26_FiveDatesKept ==
  /\ pc = "built"
  /\ months.exc = "none"
  /\ Len(activities) = 2
  /\ Len(months.months) >= 2
  /\ ResolvedAt(1).dates \cap ResolvedAt(2).dates # {}
  /\ EventCount(CellsOfMonths(months.months)) >= 4

\* The call raised on a list in which an activity has meeting dates.
C26_DatesLostToAnException ==
  /\ pc = "built"
  /\ months.exc # "none"
  /\ \E i \in 1..Len(activities) : ResolvedAt(i).dates # {}

\* The colours, in the returned months, of the events of position i: the
\* event at the place of i among the positions that meet on the date.
ColoursOf(i, dates) ==
  {months.months[k].weeks[w][c].events[j].color :
     <<k, w, c, j>> \in
       {q \in (1..Len(months.months)) \X (1..6) \X (1..7)
                 \X (1..Len(activities)) :
          /\ q[2] <= Len(months.months[q[1]].weeks)
          /\ LET m    == months.months[q[1]]
                 cell == m.weeks[q[2]][q[3]]
             IN  /\ cell.in_month
                 /\ q[4] <= Len(cell.events)
                 /\ LET ps == PositionsOn(Ymd2Ord(m.year, m.month, cell.day),
                                          Len(activities), dates)
                    IN  q[4] <= Len(ps) /\ ps[q[4]] = i}}

\* The positions with an event in the returned months.
Shown(dates) == {i \in 1..Len(activities) : dates[i] # {}}

ColoursFollowIndex(dates) ==
  LET n == Len(activities)
  IN  /\ \A i \in Shown(dates) :
           ColoursOf(i, dates) = {PILL_COLORS[((i - 1) % PaletteSize) + 1]}
      /\ \A i, j \in Shown(dates) \cap (1..PaletteSize) :
           i # j => ColoursOf(i, dates) \cap ColoursOf(j, dates) = {}
      /\ {1, PaletteSize + 1} \subseteq Shown(dates) =>
           ColoursOf(PaletteSize + 1, dates) = ColoursOf(1, dates)

Letters ==
  {"a", "b", "c", "d", "e", "f", "g", "h", "i", "j", "k", "l", "m", "n",
   "o", "p", "q", "r", "s", "t", "u", "v", "w", "x", "y", "z", "A", "B",
   "C", "D", "E", "F", "G", "H", "I", "J", "K", "L", "M", "N", "O", "P",
   "Q", "R", "S", "T", "U", "V", "W", "X", "Y", "Z"}

\* The characters urllib.parse.quote never escapes.
Unreserved == Letters \cup DigitSet \cup {"_", ".", "-", "~"}

\* The %XX escapes of the ASCII characters that are escaped.
PercentCode ==
  [c \in {"&", "=", "+", "%", "/", "#", "?", ":"} |->
     CASE c = "&" -> <<"%", "2", "6">>
       [] c = "=" -> <<"%", "3", "D">>
       [] c = "+" -> <<"%", "2", "B">>
       [] c = "%" -> <<"%", "2", "5">>
       [] c = "/" -> <<"%", "2", "F">>
       [] c = "#" -> <<"%", "2", "3">>
       [] c = "?" -> <<"%", "3", "F">>
       [] c = ":" -> <<"%", "3", "A">>]

\* quote_plus with "+" taken as a character that needs no escape.
RECURSIVE quote_plus_PlusSafe(_)
quote_plus_PlusSafe(s) ==
  IF s = <<>> THEN <<>>
  ELSE (IF Head(s) \in Unreserved \cup {"+"} THEN <<Head(s)>>
        ELSE IF Head(s) = " " THEN <<"+">>
        ELSE PercentCode[Head(s)]) \o quote_plus_PlusSafe(Tail(s))

\* urllib.parse.quote_plus(s), as urlencode calls it (safe = "").
RECURSIVE quote_plus(_)
quote_plus(s) ==
  IF s = <<>> THEN <<>>
  ELSE (IF Head(s) \in Unreserved THEN <<Head(s)>>
        ELSE IF Head(s) = " " THEN <<"+">>
        ELSE PercentCode[Head(s)]) \o quote_plus(Tail(s))

\* str(n) of an int.
IntStr(n) == IF n < 0 THEN <<"-">> \o NumStr(0 - n) ELSE NumStr(n)

\* urllib.parse.urlencode(query_params): k=v joined by "&".
RECURSIVE urlencode(_)
urlencode(query_params) ==
  IF query_params = <<>> THEN <<>>
  ELSE LET kv   == Head(query_params)
           pair == quote_plus(kv[1]) \o <<"=">> \o quote_plus(kv[2])
       IN  IF Len(query_params) = 1 THEN pair
           ELSE pair \o <<"&">> \o urlencode(Tail(query_params))

\* The names of the keys, as Python strings.
K_q == <<"q">>

K_date_after == <<"d", "a", "t", "e", "_", "a", "f", "t", "e", "r">>

K_date_before == <<"d", "a", "t", "e", "_", "b", "e", "f", "o", "r", "e">>

K_category_ids ==
  <<"c", "a", "t", "e", "g", "o", "r", "y", "_", "i", "d", "s">>

K_center_ids == <<"c", "e", "n", "t", "e", "r", "_", "i", "d", "s">>

K_show_full_details ==
  <<"s", "h", "o", "w", "_", "f", "u", "l", "l", "_",
    "d", "e", "t", "a", "i", "l", "s">>

K_view == <<"v", "i", "e", "w">>

K_page == <<"p", "a", "g", "e">>

V_true == <<"t", "r", "u", "e">>

V_card == <<"c", "a", "r", "d">>

\* params.get(key) of a text value: absent reads as None, which is falsy
\* like the empty string.
GetText(p, key) == IF key \in DOMAIN p THEN p[key] ELSE <<>>

\* params.get(key, []) of a list.
GetList(p, key) == IF key \in DOMAIN p THEN p[key] ELSE <<>>

\* params.get(key) of a flag.
GetFlag(p, key) == key \in DOMAIN p /\ p[key]

\* calendar.py 356-359: one (key, str(id)) pair per element.
RECURSIVE IdPairs(_, _)
IdPairs(key, ids) ==
  IF ids = <<>> THEN <<>>
  ELSE <<<<key, IntStr(Head(ids))>>>> \o IdPairs(key, Tail(ids))

\* build_query_string with the view written whenever it is non-empty.
build_query_string_AlwaysView(p, pg) ==
  urlencode(
    (IF GetText(p, "q") # <<>> THEN <<<<K_q, p["q"]>>>> ELSE <<>>)
    \o (IF GetText(p, "date_after") # <<>>
        THEN <<<<K_date_after, p["date_after"]>>>> ELSE <<>>)
    \o (IF GetText(p, "date_before") # <<>>
        THEN <<<<K_date_before, p["date_before"]>>>> ELSE <<>>)
    \o IdPairs(K_category_ids, GetList(p, "category_ids"))
    \o IdPairs(K_center_ids, GetList(p, "center_ids"))
    \o (IF GetFlag(p, "show_full_details")
        THEN <<<<K_show_full_details, V_true>>>> ELSE <<>>)
    \o (IF GetText(p, "view") # <<>>
        THEN <<<<K_view, p["view"]>>>> ELSE <<>>)
    \o <<<<K_page, IntStr(pg)>>>>)

\* calendar.py 346-367
build_query_string(p, pg) ==
  urlencode(
    (IF GetText(p, "q") # <<>> THEN <<<<K_q, p["q"]>>>> ELSE <<>>)
    \o (IF GetText(p, "date_after") # <<>>
        THEN <<<<K_date_after, p["date_after"]>>>> ELSE <<>>)
    \o (IF GetText(p, "date_before") # <<>>
        THEN <<<<K_date_before, p["date_before"]>>>> ELSE <<>>)
    \o IdPairs(K_category_ids, GetList(p, "category_ids"))
    \o IdPairs(K_center_ids, GetList(p, "center_ids"))
    \o (IF GetFlag(p, "show_full_details")
        THEN <<<<K_show_full_details, V_true>>>> ELSE <<>>)
    \o (IF GetText(p, "view") # <<>> /\ p["view"] # V_card
        THEN <<<<K_view, p["view"]>>>> ELSE <<>>)
    \o <<<<K_page, IntStr(pg)>>>>)

(***************************************************************************)
(* Inputs of build_query_string                                            *)
(***************************************************************************)

\* The number of ids in a category_ids or center_ids list.
MaxIds == 2

IdPool == {3, 12}

\* Free text: empty, with a blank, with the separators of a query string.
QTexts == {<<>>, <<"a", " ", "b">>, <<"x", "&", "y", "=", "1", "+", "%">>}

DateTexts == {<<>>, IsoStr(2026, 3, 1)}

ViewTexts == {<<>>, V_card, <<"c", "a", "l", "e", "n", "d", "a", "r">>}

\* No value (the key is absent) or one of vs.
Optional(vs) == {<<>>} \cup {<<v>> : v \in vs}

\* The dict with key k when a value is chosen, the empty dict otherwise.
Entry(k, choice) == IF Len(choice) = 0 THEN <<>> ELSE (k :> choice[1])

ParamDicts ==
  {Entry("q", q) @@ Entry("date_after", da) @@ Entry("date_before", db)
     @@ Entry("category_ids", cat) @@ Entry("center_ids", cen)
     @@ Entry("show_full_details", sfd) @@ Entry("view", vw)
     @@ Entry("page", pg) :
     q \in Optional(QTexts),
     da \in Optional(DateTexts),
     db \in Optional({IsoStr(2026, 4, 1)}),
     cat \in Optional(SeqsUpTo(IdPool, MaxIds)),
     cen \in Optional(SeqsUpTo({7}, MaxIds)),
     sfd \in Optional(BOOLEAN),
     vw \in Optional(ViewTexts),
     pg \in Optional({9})}

PageNumbers == {1, 25}

InitQuery ==
  /\ pc = "input"
  /\ params \in ParamDicts
  /\ page \in PageNumbers
  /\ query = <<>>
  /\ CalendarIdle
  /\ CallsIdle
  /\ BatchIdle
  /\ SessionIdle

BuildQuery ==
  /\ pc = "input"
  /\ query' = build_query_string(params, page)
  /\ pc' = "built"
  /\ UNCHANGED <<params, page, calendarVars, callVars, batchVars, sessionVars>>

NextQuery == BuildQuery

SpecQuery == InitQuery /\ [][NextQuery]_vars

(***************************************************************************)
(* Properties of build_query_string                                        *)
(***************************************************************************)

\* s cut at every sep.
RECURSIVE SplitOn(_, _, _, _)
SplitOn(s, sep, cur, acc) ==
  IF s = <<>> THEN Append(acc, cur)
  ELSE IF Head(s) = sep THEN SplitOn(Tail(s), sep, <<>>, Append(acc, cur))
  ELSE SplitOn(Tail(s), sep, Append(cur, Head(s)), acc)

\* The character a %XX escape stands for.
Unescaped(code) == CHOOSE c \in DOMAIN PercentCode : PercentCode[c] = code

\* The text a quoted text stands for: "+" is a blank, %XX its character.
RECURSIVE Unquote(_)
Unquote(s) ==
  IF s = <<>> THEN <<>>
  ELSE IF Head(s) = "+" THEN <<" ">> \o Unquote(Tail(s))
  ELSE IF Head(s) = "%"
       THEN <<Unescaped(SubSeq(s, 1, 3))>> \o Unquote(SubSeq(s, 4, Len(s)))
  ELSE <<Head(s)>> \o Unquote(Tail(s))

\* The (key, value) pairs a query string reads as.
QueryPairs(s) ==
  LET parts == SplitOn(s, "&", <<>>, <<>>)
  IN  [i \in 1..Len(parts) |->
         LET kv == SplitOn(parts[i], "=", <<>>, <<>>)
         IN  IF Len(kv) = 2 THEN <<Unquote(kv[1]), Unquote(kv[2])>>
             ELSE <<parts[i], "malformed">>]

\* The values of key, in the order of the pairs.
ValuesOf(pairs, key) ==
  LET HasKey(kv) == kv[1] = key
      sel == SelectSeq(pairs, HasKey)
  IN  [i \in 1..Len(sel) |-> sel[i][2]]

\* The place of a key in the fixed order; 0 for any other key.
KeyOrder ==
  <<K_q, K_date_after, K_date_before, K_category_ids, K_center_ids,
    K_show_full_details, K_view, K_page>>

KeyRank(key) ==
  IF \E r \in 1..Len(KeyOrder) : KeyOrder[r] = key
  THEN CHOOSE r \in 1..Len(KeyOrder) : KeyOrder[r] = key
  ELSE 0

IdTexts(ids) == [i \in 1..Len(ids) |-> IntStr(ids[i])]

IfThen(cond, value) == IF cond THEN <<value>> ELSE <<>>

QueryIsAsClaimed(pairs, p, pg) ==
  /\ \A i \in 1..Len(pairs) : KeyRank(pairs[i][1]) # 0
  /\ \A i \in 1..(Len(pairs) - 1) :
       KeyRank(pairs[i][1]) <= KeyRank(pairs[i + 1][1])
  /\ ValuesOf(pairs, K_q) = IfThen(GetText(p, "q") # <<>>, GetText(p, "q"))
  /\ ValuesOf(pairs, K_date_after) =
       IfThen(GetText(p, "date_after") # <<>>, GetText(p, "date_after"))
  /\ ValuesOf(pairs, K_date_before) =
       IfThen(GetText(p, "date_before") # <<>>, GetText(p, "date_before"))
  /\ ValuesOf(pairs, K_category_ids) = IdTexts(GetList(p, "category_ids"))
  /\ ValuesOf(pairs, K_center_ids) = IdTexts(GetList(p, "center_ids"))
  /\ ValuesOf(pairs, K_show_full_details) =
       IfThen(GetFlag(p, "show_full_details"), V_true)
  /\ ValuesOf(pairs, K_view) =
       IfThen(GetText(p, "view") \notin {<<>>, V_card}, GetText(p, "view"))
  /\ ValuesOf(pairs, K_page) = <<IntStr(pg)>>
  /\ pairs[Len(pairs)][1] = K_page

\* C12: build_query_string(params, page) emits, in this order and nothing
\* else, q if non-empty, date_after if non-empty, date_before if non-empty,
\* one category_ids pair per element, one center_ids pair per element,
\* show_full_details=true only when the flag is true, view only when it is
\* non-empty and not "card", and last exactly one page pair.
C12_QueryStringPairs ==
  pc = "built" => QueryIsAsClaimed(QueryPairs(query), params, page)

\* The flag false and the view "card" are left out, a q with separators
\* and two category ids are written, and the page of params is ignored.
C12_DefaultsOmitted ==
  /\ pc = "built"
  /\ "show_full_details" \in DOMAIN params
  /\ ~params["show_full_details"]
  /\ GetText(params, "view") = V_card
  /\ GetText(params, "q") = <<"x", "&", "y", "=", "1", "+", "%">>
  /\ GetList(params, "category_ids") = <<12, 3>>
  /\ "page" \in DOMAIN params
  /\ page = 25
  /\ Len(QueryPairs(query)) = 5

\* An empty params yields just the page.
C12_EmptyParamsGivePage ==
  (pc = "built" /\ DOMAIN params = {})
    => query = K_page \o <<"=">> \o IntStr(page)

C12_EmptyParamsSeen == pc = "built" /\ DOMAIN params = {} /\ page = 25

\* int(text) of a decimal text with an optional minus sign.
ParseInt(text) ==
  IF text # <<>> /\ Head(text) = "-" THEN 0 - DecimalValue(Tail(text))
  ELSE DecimalValue(text)

\* The last value of key, or the default when the key is absent.
LastValueOr(pairs, key, default) ==
  LET vs == ValuesOf(pairs, key)
  IN  IF vs = <<>> THEN default ELSE vs[Len(vs)]

\* routes/activities.py 312-323: the parameters browse_activities reads
\* from a query string, the defaults of its signature filled in.
browse_activities_params(s) ==
  LET pairs == QueryPairs(s)
      ints(key) == [i \in 1..Len(ValuesOf(pairs, key)) |->
                      ParseInt(ValuesOf(pairs, key)[i])]
  IN  [q |-> LastValueOr(pairs, K_q, <<>>),
       date_after |-> LastValueOr(pairs, K_date_after, <<>>),
       date_before |-> LastValueOr(pairs, K_date_before, <<>>),
       category_ids |-> ints(K_category_ids),
       center_ids |-> ints(K_center_ids),
       show_full_details |->
         LastValueOr(pairs, K_show_full_details, <<>>) = V_true,
       view |-> LastValueOr(pairs, K_view, V_card),
       page |-> ParseInt(LastValueOr(pairs, K_page, <<"1">>))]

\* The filter state of params and page; an absent key, like an empty
\* view, stands for the default of the route.
FilterState(p, pg) ==
  [q |-> GetText(p, "q"),
   date_after |-> GetText(p, "date_after"),
   date_before |-> GetText(p, "date_before"),
   category_ids |-> GetList(p, "category_ids"),
   center_ids |-> GetList(p, "center_ids"),
   show_full_details |-> GetFlag(p, "show_full_details"),
   view |-> IF GetText(p, "view") = <<>> THEN V_card ELSE GetText(p, "view"),
   page |-> pg]

\* C24: pagination links preserve the current filter state: for every
\* filter state (q, date_after, date_before, category_ids, center_ids,
\* show_full_details, view) and page, decoding the output of
\* build_query_string and filling omitted keys with the defaults of the
\* browse route (empty strings, empty lists, show_full_details false, view
\* "card", page 1) gives back the same q, dates, id lists in the same
\* order, show_full_details, effective view and page.
C24_LinkPreservesFilterState ==
  pc = "built" => browse_activities_params(query) = FilterState(params, page)

\* A state with separators in q, two category ids in descending order, the
\* flag set, the calendar view and an omitted date came back whole.
C24_FullStateCameBack ==
  /\ pc = "built"
  /\ GetText(params, "q") = <<"x", "&", "y", "=", "1", "+", "%">>
  /\ GetText(params, "date_after") = <<>>
  /\ GetList(params, "category_ids") = <<12, 3>>
  /\ GetList(params, "center_ids") = <<7, 7>>
  /\ GetFlag(params, "show_full_details")
  /\ GetText(params, "view") = <<"c", "a", "l", "e", "n", "d", "a", "r">>
  /\ page = 25
  /\ browse_activities_params(query).category_ids = <<12, 3>>
  /\ browse_activities_params(query).page = 25

(***************************************************************************)
(* Malformed date data                                                     *)
(***************************************************************************)

\* The calls that cannot raise for another reason than the date data: no
\* week-of-month text and no range that runs up to date.max.
C13_Case ==
  /\ pc = "expanded"
  /\ pattern.weeks_of_month = <<>>
  /\ EndOf(pattern) # DateMax

\* An exception record whose date field holds a truthy value that is not
\* a text.
HasNonTextDate(p) ==
  \E i \in 1..Len(p.exception_dates) :
    LET e == p.exception_dates[i]
    IN  e.kind = "dict" /\ DictGetDate(e).t = "int" /\ ~Falsy(DictGetDate(e))

\* C13: expand_pattern_dates never raises on malformed date data: for
\* every beginning and ending date and every exception_dates entry (a
\* string, a record whose date field is missing or holds any value, any
\* other value) the malformed item is treated as absent and the call
\* returns.
C13_MalformedDatesNeverRaise == C13_Case => expanded.exc = "none"

\* What holds instead: the call raises exactly when, with parsable bounds,
\* an exception record holds a date that is not a text, and then it is a
\* TypeError.
C13_RaisesOnlyOnNonTextDate ==
  C13_Case =>
    /\ expanded.exc \in {"none", "TypeError"}
    /\ expanded.exc = "TypeError" <=>
         /\ BeginOf(pattern) # NoDate
         /\ EndOf(pattern) # NoDate
         /\ HasNonTextDate(pattern)

C13_TypeErrorRaised ==
  /\ C13_Case
  /\ expanded.exc = "TypeError"
  /\ pattern.exception_dates = <<DictEntry(IntVal(5))>>

(***************************************************************************)
(* get_meeting_dates and get_meeting_dates_batch (services/activities.py)  *)
(***************************************************************************)

\* The number of ids in an enumerated batch.
MaxBatch == 3

BatchIds == {1, 2}

\* What one upstream request ends with: a transport or status error, an
\* answer whose response code is an error, an answer without meeting data,
\* meeting data that fails validation, valid meeting data, or the
\* cancellation of the task at the await.
ResponseKinds ==
  {"http_error", "api_error", "no_data", "invalid", "data", "cancelled"}

\* The valid meeting data upstream may answer for an id.
PayloadsOf(aid) ==
  {MeetingInfo(aid, FALSE, <<P_MonWed>>), MeetingInfo(aid, TRUE, <<>>)}

Responses(aid) ==
  {[kind |-> k, payload |-> NoMeetingInfo] : k \in ResponseKinds \ {"data"}}
    \cup {[kind |-> "data", payload |-> m] : m \in PayloadsOf(aid)}

\* The outcome of a task: a value (a model or None) or an exception.
ReturnedModel(m) == [kind |-> "model", model |-> m]

ReturnedNone == [kind |-> "none", model |-> NoMeetingInfo]

RaisedException == [kind |-> "exception", model |-> NoMeetingInfo]

NotEnded == [kind |-> "pending", model |-> NoMeetingInfo]

NoResponse == [kind |-> "none", payload |-> NoMeetingInfo]

\* A task that has not ended: no response yet, no outcome yet.
Pending == [response |-> NoResponse, result |-> NotEnded]

\* services/activities.py 61-87: Exception is caught and gives None; the
\* cancellation, not an Exception, leaves the coroutine.
get_meeting_dates(response) ==
  IF response.kind = "data" THEN ReturnedModel(response.payload)
  ELSE IF response.kind = "cancelled" THEN RaisedException
  ELSE ReturnedNone

\* services/activities.py 110-113: zip(activity_ids, results), the models
\* kept under their id, a later one replacing an earlier one.
RECURSIVE ZipResults(_, _, _)
ZipResults(ids, results, acc) ==
  IF ids = <<>> \/ results = <<>> THEN acc
  ELSE ZipResults(Tail(ids), Tail(results),
                  IF Head(results).kind = "model"
                  THEN (Head(ids) :> Head(results).model) @@ acc
                  ELSE acc)

\* The results of asyncio.gather: the outcomes by position of the task.
GatherResults(ts) == [i \in 1..Len(ts) |-> ts[i].result]

NotReturned == [returned |-> FALSE, meeting_dates |-> <<>>]

Returned(md) == [returned |-> TRUE, meeting_dates |-> md]

InitBatch ==
  /\ pc = "input"
  /\ activity_ids \in SeqsUpTo(BatchIds, MaxBatch)
  /\ tasks = <<>>
  /\ batch = NotReturned
  /\ CalendarIdle
  /\ CallsIdle
  /\ QueryIdle
  /\ SessionIdle

\* services/activities.py 95-96
BatchOfNothing ==
  /\ pc = "input"
  /\ activity_ids = <<>>
  /\ batch' = Returned(<<>>)
  /\ pc' = "returned"
  /\ UNCHANGED <<activity_ids, tasks, calendarVars, callVars, queryVars, sessionVars>>

\* services/activities.py 101-106: one task per id, all awaited together.
BatchStart ==
  /\ pc = "input"
  /\ activity_ids # <<>>
  /\ tasks' = [i \in 1..Len(activity_ids) |-> Pending]
  /\ pc' = "gathering"
  /\ UNCHANGED <<activity_ids, batch, calendarVars, callVars, queryVars, sessionVars>>

\* The outcomes in the order in which the tasks ended instead of the order
\* of the tasks: the outcome is put at the first place still free.
TaskEnds_CompletionOrder(i, response) ==
  /\ pc = "gathering"
  /\ tasks[i].response = NoResponse
  /\ LET free == CHOOSE j \in 1..Len(tasks) :
                   /\ tasks[j].result = NotEnded
                   /\ \A k \in 1..(j - 1) : tasks[k].result # NotEnded
     IN  tasks' = [tasks EXCEPT ![i].response = response,
                                ![free].result = get_meeting_dates(response)]
  /\ UNCHANGED <<pc, activity_ids, batch, calendarVars, callVars, queryVars, sessionVars>>

\* One task ends, in any order; gather keeps its outcome at the position of
\* the task.
TaskEnds(i, response) ==
  /\ pc = "gathering"
  /\ tasks[i].response = NoResponse
  /\ tasks' = [tasks EXCEPT ![i].response = response,
                             ![i].result = get_meeting_dates(response)]
  /\ UNCHANGED <<pc, activity_ids, batch, calendarVars, callVars, queryVars, sessionVars>>

\* services/activities.py 106-115: every task has ended.
BatchGather ==
  /\ pc = "gathering"
  /\ \A i \in 1..Len(tasks) : tasks[i].response # NoResponse
  /\ batch' = Returned(ZipResults(activity_ids, GatherResults(tasks), <<>>))
  /\ pc' = "returned"
  /\ UNCHANGED <<activity_ids, tasks, calendarVars, callVars, queryVars, sessionVars>>

NextBatch ==
  \/ BatchOfNothing
  \/ BatchStart
  \/ \E i \in 1..Len(tasks) :
       \E response \in Responses(activity_ids[i]) : TaskEnds(i, response)
  \/ BatchGather

SpecBatch == InitBatch /\ [][NextBatch]_vars

(***************************************************************************)
(* Properties of the batch                                                 *)
(***************************************************************************)

\* The positions whose fetch succeeded with non-empty, valid data.
Succeeded == {i \in 1..Len(tasks) : tasks[i].response.kind = "data"}

\* The last successful fetch of an id.
LastSuccessOf(aid) ==
  CHOOSE i \in Succeeded :
    /\ activity_ids[i] = aid
    /\ \A j \in Succeeded : activity_ids[j] = aid => j <= i

\* C14: get_meeting_dates_batch tolerates partial failure: whatever the
\* order in which the fetches complete or fail, the batch does not fail and
\* the returned map holds exactly the ids whose fetch succeeded with
\* non-empty data, each mapped to the result of its own fetch; an id whose
\* fetches failed is absent.
C14_BatchHoldsTheSuccessfulFetches ==
  /\ pc = "returned" =>
       /\ batch.returned
       /\ DOMAIN batch.meeting_dates = {activity_ids[i] : i \in Succeeded}
       /\ \A aid \in DOMAIN batch.meeting_dates :
            batch.meeting_dates[aid] = tasks[LastSuccessOf(aid)].response.payload
  /\ (pc = "gathering" /\ \A i \in 1..Len(tasks) : tasks[i].response # NoResponse)
       => ENABLED BatchGather

\* A batch of three fetches, two of them of the same id: the first
\* succeeded, the second failed and the third was cancelled.
C14_PartialFailureOutOfOrder ==
  /\ pc = "returned"
  /\ activity_ids = <<1, 2, 2>>
  /\ tasks[1].response.kind = "data"
  /\ tasks[2].response.kind = "http_error"
  /\ tasks[3].response.kind = "cancelled"
  /\ DOMAIN batch.meeting_dates = {1}

(***************************************************************************)
(* Sessions: SessionManager (sessions.py), session_middleware (deps.py),   *)
(* the session lifecycle of ActiveNetClient (client.py) and the login and  *)
(* logout routes (routes/auth.py).                                         *)
(*                                                                         *)
(* A session id is the number of the secrets.token_urlsafe call that made  *)
(* it: the ids are pairwise different and nobody presents an id before it  *)
(* was made.  A client object is named by the number of the create_session *)
(* call that constructed it, which is the number of its session id.        *)
(***************************************************************************)

\* The number of session ids that are made.
MaxSessions == 2

\* The number of requests that arrive.
MaxRequests == 3

\* Python None, for a token, the user info and a client.
None == "None"

\* No samo_session cookie in the request, no session id.
NoCookie == 0

\* A cookie value that is no session id.
BogusCookie == -1

\* None where a session id or a client is expected.
NoSessionId == NoCookie

NoClient == NoCookie

\* client.py 40-46
NewClient ==
  [session_cookie |-> {}, csrf_token |-> "", access_token |-> None,
   refresh_token |-> None, user_info |-> None]

\* client.py 55-58
is_authenticated(c) == c.access_token # None

\* client.py 64-90 when the sign-in page is fetched and holds a token.
Bootstrapped(c) ==
  [c EXCEPT !.csrf_token = "csrf", !.session_cookie = {"site"}]

\* client.py 145-151 with the refresh token left in place.
logout_KeepRefreshToken(c) ==
  [c EXCEPT !.session_cookie = {}, !.csrf_token = "",
            !.access_token = None, !.user_info = None]

\* client.py 145-151
logout(c) ==
  [c EXCEPT !.session_cookie = {}, !.csrf_token = "",
            !.access_token = None, !.refresh_token = None,
            !.user_info = None]

\* No response yet, or none at all when an exception leaves the middleware.
NoStatus == 0

\* The response_code of an answer without one.
NoCode == "absent"

\* What upstream answers to POST /user/signin: the HTTP status, the
\* response_code and response_message of the headers, whether the body
\* holds a result with the tokens and the customer, and whether the
\* response sets a cookie.
SignInAnswers ==
  {[status |-> 200, code |-> "0000", message |-> "Successful",
    has_result |-> TRUE, sets_cookie |-> TRUE],
   [status |-> 200, code |-> NoCode, message |-> "",
    has_result |-> FALSE, sets_cookie |-> TRUE],
   [status |-> 200, code |-> "0001", message |-> "No results",
    has_result |-> FALSE, sets_cookie |-> FALSE],
   [status |-> 200, code |-> "1004", message |-> "Account locked",
    has_result |-> TRUE, sets_cookie |-> TRUE],
   [status |-> 500, code |-> NoCode, message |-> "",
    has_result |-> FALSE, sets_cookie |-> FALSE]}

\* No answer of upstream yet.
NoAnswer ==
  [status |-> NoStatus, code |-> NoCode, message |-> "",
   has_result |-> FALSE, sets_cookie |-> FALSE]

\* client.py 250-251: headers.get("response_code", "0000")
ResponseCode(answer) == IF answer.code = NoCode THEN "0000" ELSE answer.code

\* The outcome of a call: the exception raised, the code and message an
\* APIError carries, and the client as the call leaves it.
Outcome(exc, code, message, c) ==
  [exc |-> exc, code |-> code, message |-> message, client |-> c]

\* client.py 133-140: the cookies merged, the tokens and the customer of
\* the result, None where the result has none.
Upgraded(c, answer) ==
  [c EXCEPT
     !.session_cookie = IF answer.sets_cookie THEN @ \cup {"signin"} ELSE @,
     !.access_token = IF answer.has_result THEN "access" ELSE None,
     !.refresh_token = IF answer.has_result THEN "refresh" ELSE None,
     !.user_info = IF answer.has_result THEN "customer" ELSE None]

\* login with the tokens stored before the response code is checked.
login_StoreBeforeCheck(c, answer) ==
  IF answer.status # 200
  THEN Outcome("HTTPStatusError", "", "", c)
  ELSE IF ResponseCode(answer) \notin {"0000", "0001"}
  THEN Outcome("APIError", ResponseCode(answer), answer.message,
               Upgraded(c, answer))
  ELSE Outcome("none", "", "", Upgraded(c, answer))

\* client.py 92-143 and 248-255, from the answer of upstream on.
login(c, answer) ==
  IF answer.status # 200
  THEN Outcome("HTTPStatusError", "", "", c)
  ELSE IF ResponseCode(answer) \notin {"0000", "0001"}
  THEN Outcome("APIError", ResponseCode(answer), answer.message, c)
  ELSE Outcome("none", "", "", Upgraded(c, answer))

Routes == {"browse", "login", "logout"}

\* A request slot: where the request is (pc), its route and samo_session
\* cookie, the locals of session_middleware (client, new_session_id) and of
\* create_session (session_id), the client destroy_session popped, the
\* answer of upstream to the sign-in, and the response: status, error text,
\* samo_session set and deleted.
IdleRequest ==
  [pc |-> "idle", route |-> "browse", cookie |-> NoCookie,
   found |-> FALSE, client |-> NoClient, session_id |-> NoSessionId,
   new_session_id |-> NoSessionId, popped |-> NoClient,
   answer |-> NoAnswer,
   status |-> NoStatus, error |-> "", exc |-> "none", code |-> "",
   set_cookie |-> NoSessionId, deleted_cookie |-> FALSE]

\* sessions.py 34-36
get_client(sid) == IF sid \in DOMAIN sessions THEN sessions[sid] ELSE NoClient

\* dict.pop that empties the dict.
pop_Everything(d, k) == <<>>

\* sessions.py 40: the dict after self._sessions.pop(session_id, None).
pop(d, k) == [x \in DOMAIN d \ {k} |-> d[x]]

InitSession ==
  /\ pc = "serving"
  /\ sessions = <<>>
  /\ clients = <<>>
  /\ next_token = 0
  /\ requests = [r \in 1..MaxRequests |-> IdleRequest]
  /\ delivered = {}
  /\ CalendarIdle
  /\ CallsIdle
  /\ QueryIdle
  /\ BatchIdle

\* create_session with the client registered before bootstrap is awaited.
Arrive_RegisterFirst(r, route, cookie) ==
  /\ requests[r].pc = "idle"
  /\ \A earlier \in 1..(r - 1) : requests[earlier].pc # "idle"
  /\ LET found == cookie # NoCookie /\ cookie \in DOMAIN sessions
         q == [IdleRequest EXCEPT !.route = route, !.cookie = cookie,
                                  !.found = found]
     IN  IF found
         THEN /\ requests' = [requests EXCEPT ![r] =
                   [q EXCEPT !.pc = "route", !.client = sessions[cookie]]]
              /\ UNCHANGED <<clients, next_token, sessions>>
         ELSE /\ next_token < MaxSessions
              /\ next_token' = next_token + 1
              /\ clients' = (next_token' :> NewClient) @@ clients
              /\ sessions' = (next_token' :> next_token') @@ sessions
              /\ requests' = [requests EXCEPT ![r] =
                   [q EXCEPT !.pc = "bootstrap", !.session_id = next_token']]
  /\ UNCHANGED <<pc, delivered, calendarVars, callVars, queryVars, batchVars>>

\* deps.py 18-25 and sessions.py 27-28: the lookup of the cookie, and for a
\* request without a live session the start of create_session, up to the
\* await of bootstrap.  Requests are numbered in the order they arrive.
Arrive(r, route, cookie) ==
  /\ requests[r].pc = "idle"
  /\ \A earlier \in 1..(r - 1) : requests[earlier].pc # "idle"
  /\ LET found == cookie # NoCookie /\ cookie \in DOMAIN sessions
         q == [IdleRequest EXCEPT !.route = route, !.cookie = cookie,
                                  !.found = found]
     IN  IF found
         THEN /\ requests' = [requests EXCEPT ![r] =
                   [q EXCEPT !.pc = "route", !.client = sessions[cookie]]]
              /\ UNCHANGED <<clients, next_token>>
         ELSE /\ next_token < MaxSessions
              /\ next_token' = next_token + 1
              /\ clients' = (next_token' :> NewClient) @@ clients
              /\ requests' = [requests EXCEPT ![r] =
                   [q EXCEPT !.pc = "bootstrap", !.session_id = next_token']]
  /\ UNCHANGED <<pc, sessions, delivered, calendarVars, callVars, queryVars, batchVars>>

\* sessions.py 29-32 and deps.py 24-27: bootstrap returns, the client is
\* registered under the new id and attached to the request.
BootstrapCompletes(r) ==
  /\ requests[r].pc = "bootstrap"
  /\ LET sid == requests[r].session_id
     IN  /\ clients' = [clients EXCEPT ![sid] = Bootstrapped(@)]
         /\ sessions' = (sid :> sid) @@ sessions
         /\ requests' = [requests EXCEPT ![r].pc = "route",
                                         ![r].new_session_id = sid,
                                         ![r].client = sid]
  /\ UNCHANGED <<pc, next_token, delivered, calendarVars, callVars, queryVars, batchVars>>

\* client.py 77-83: the sign-in page answers an error status or holds no
\* token; the exception leaves create_session and session_middleware.
BootstrapFails(r, exc) ==
  /\ requests[r].pc = "bootstrap"
  /\ requests' = [requests EXCEPT ![r].pc = "done", ![r].exc = exc]
  /\ UNCHANGED <<pc, sessions, clients, next_token, delivered, calendarVars, callVars, queryVars,
                 batchVars>>

\* deps.py 29-38 around a route that leaves the session alone.
Browse(r) ==
  /\ requests[r].pc = "route"
  /\ requests[r].route = "browse"
  /\ requests' = [requests EXCEPT ![r].pc = "done", ![r].status = 200,
                                  ![r].set_cookie = requests[r].new_session_id]
  /\ delivered' = delivered \cup ({requests[r].new_session_id} \ {NoSessionId})
  /\ UNCHANGED <<pc, sessions, clients, next_token, calendarVars, callVars, queryVars,
                 batchVars>>

\* deps.py 29: the route raises (an upstream call of the page fails, the
\* calendar cannot be built); the exception leaves session_middleware
\* before the cookie is set.
BrowseFails(r) ==
  /\ requests[r].pc = "route"
  /\ requests[r].route = "browse"
  /\ requests' = [requests EXCEPT ![r].pc = "done", ![r].exc = "Exception"]
  /\ UNCHANGED <<pc, sessions, clients, next_token, delivered, calendarVars, callVars, queryVars,
                 batchVars>>

\* routes/auth.py 71-82 with sessions.py 38-43, then deps.py 31-38.
Logout(r) ==
  /\ requests[r].pc = "route"
  /\ requests[r].route = "logout"
  /\ LET sid    == requests[r].cookie
         popped == IF sid # NoCookie THEN get_client(sid) ELSE NoClient
     IN  /\ sessions' = IF sid # NoCookie THEN pop(sessions, sid)
                        ELSE sessions
         /\ clients' = IF popped # NoClient
                       THEN [clients EXCEPT ![popped] = logout(@)]
                       ELSE clients
         /\ requests' = [requests EXCEPT
                           ![r].pc = "done", ![r].status = 303,
                           ![r].popped = popped,
                           ![r].deleted_cookie = TRUE,
                           ![r].set_cookie = requests[r].new_session_id]
  /\ delivered' = delivered \cup ({requests[r].new_session_id} \ {NoSessionId})
  /\ UNCHANGED <<pc, next_token, calendarVars, callVars, queryVars, batchVars>>

\* routes/auth.py 47-48 and client.py 106-124: the credentials are posted
\* and the answer awaited.
LoginStart(r) ==
  /\ requests[r].pc = "route"
  /\ requests[r].route = "login"
  /\ requests' = [requests EXCEPT ![r].pc = "signin"]
  /\ UNCHANGED <<pc, sessions, clients, next_token, delivered, calendarVars, callVars, queryVars,
                 batchVars>>

\* client.py 129-143, routes/auth.py 49-68 and deps.py 31-38.
LoginReturns(r, answer) ==
  /\ requests[r].pc = "signin"
  /\ LET c   == requests[r].client
         out == login(clients[c], answer)
     IN  /\ clients' = [clients EXCEPT ![c] = out.client]
         /\ requests' = [requests EXCEPT
              ![r].pc = "done",
              ![r].answer = answer,
              ![r].exc = out.exc,
              ![r].code = out.code,
              ![r].status = IF out.exc = "none" THEN 303
                            ELSE IF out.exc = "APIError" THEN 401
                            ELSE 500,
              ![r].error = IF out.exc = "none" THEN ""
                           ELSE IF out.exc = "APIError" THEN out.message
                           ELSE "Login failed. Please try again.",
              ![r].set_cookie = requests[r].new_session_id]
  /\ delivered' = delivered \cup ({requests[r].new_session_id} \ {NoSessionId})
  /\ UNCHANGED <<pc, sessions, next_token, calendarVars, callVars, queryVars,
                 batchVars>>

\* The samo_session values a request can carry: none, a value that is no
\* session id, a session id a response has set; an id no response has set
\* is known to nobody.
Cookies == {NoCookie, BogusCookie} \cup delivered

NextSession ==
  \/ \E r \in 1..MaxRequests, route \in Routes, cookie \in Cookies :
       Arrive(r, route, cookie)
  \/ \E r \in 1..MaxRequests : BootstrapCompletes(r)
  \/ \E r \in 1..MaxRequests :
       \E exc \in {"HTTPStatusError", "BootstrapError"} : BootstrapFails(r, exc)
  \/ \E r \in 1..MaxRequests : Browse(r)
  \/ \E r \in 1..MaxRequests : BrowseFails(r)
  \/ \E r \in 1..MaxRequests : Logout(r)
  \/ \E r \in 1..MaxRequests : LoginStart(r)
  \/ \E r \in 1..MaxRequests :
       \E answer \in SignInAnswers : LoginReturns(r, answer)

SpecSession == InitSession /\ [][NextSession]_vars

(***************************************************************************)
(* Properties of the sessions                                              *)
(***************************************************************************)

\* Request r completes create_session in this step.
Creates(r) == requests[r].pc = "bootstrap" /\ requests'[r].pc = "route"

\* Request r runs destroy_session(sid) in this step.
Destroys(r, sid) ==
  /\ requests[r].pc = "route"
  /\ requests[r].route = "logout"
  /\ requests'[r].pc = "done"
  /\ requests[r].cookie = sid
  /\ sid # NoCookie

\* get_client(sid) after the step.
ClientAfter(sid) ==
  IF sid \in DOMAIN sessions' THEN sessions'[sid] ELSE NoClient

\* What a step does to the session table.
SessionTableStep ==
  /\ \A sid \in DOMAIN sessions \cap DOMAIN sessions' :
       sessions'[sid] = sessions[sid]
  /\ \A sid \in DOMAIN sessions' \ DOMAIN sessions :
       \E r \in 1..MaxRequests :
         /\ Creates(r)
         /\ requests'[r].new_session_id = sid
         /\ requests'[r].client = sessions'[sid]
  /\ \A sid \in DOMAIN sessions \ DOMAIN sessions' :
       \E r \in 1..MaxRequests : Destroys(r, sid)
  /\ \A r \in 1..MaxRequests :
       /\ Creates(r) =>
            /\ requests'[r].new_session_id \notin DOMAIN sessions
            /\ DOMAIN sessions' =
                 DOMAIN sessions \cup {requests'[r].new_session_id}
            /\ ClientAfter(requests'[r].new_session_id) = requests'[r].client
       /\ \A sid \in {BogusCookie} \cup (1..MaxSessions) :
            Destroys(r, sid) =>
              /\ ClientAfter(sid) = NoClient
              /\ DOMAIN sessions' = DOMAIN sessions \ {sid}
              /\ requests'[r].exc = "none"
              /\ sid \notin DOMAIN sessions =>
                   (sessions' = sessions /\ clients' = clients)

\* C15: after any sequence of create_session and destroy_session calls,
\* get_client(sid) is the very client the create_session that produced sid
\* returned when sid was created and not destroyed since, and None
\* otherwise; creating or destroying another session never changes the
\* client of sid, and destroy_session of an unknown id raises nothing and
\* changes nothing.
C15_SessionTable == [][SessionTableStep]_vars

\* Two sessions were created; the first was destroyed, the second is live
\* with its own client, and a destroy_session of an unknown id has run.
C15_CreatedDestroyedAndUnknown ==
  /\ DOMAIN sessions = {2}
  /\ get_client(2) = 2
  /\ get_client(1) = NoClient
  /\ clients[1].csrf_token = ""
  /\ clients[2].csrf_token # ""
  /\ requests[2].pc = "done" /\ requests[2].route = "logout"
  /\ requests[2].cookie = 1 /\ requests[2].popped = 1
  /\ requests[3].pc = "done" /\ requests[3].route = "logout"
  /\ requests[3].cookie = BogusCookie /\ requests[3].popped = NoClient

\* Request r passes the lookup of its cookie in this step.
Arrives(r) ==
  requests[r].pc = "idle" /\ requests'[r].pc \in {"route", "bootstrap"}

\* Request r ends in this step.
Ends(r) == requests[r].pc \notin {"idle", "done"} /\ requests'[r].pc = "done"

\* A request whose cookie names a live session: that client is attached,
\* no session is created and no cookie is set.
LiveSessionKept(r) ==
  /\ (Arrives(r) /\ requests'[r].found) =>
       /\ requests'[r].client = sessions[requests'[r].cookie]
       /\ requests'[r].new_session_id = NoSessionId
       /\ UNCHANGED <<sessions, clients, next_token>>
  /\ (Ends(r) /\ requests[r].found) =>
       /\ requests'[r].client = requests[r].client
       /\ requests'[r].new_session_id = NoSessionId
       /\ requests'[r].set_cookie = NoSessionId
       /\ DOMAIN sessions' \subseteq DOMAIN sessions

\* A request whose cookie is absent or names no live session ends with one
\* new session, its client attached and its id set as samo_session.
NewSessionDelivered(r) ==
  LET sid == requests'[r].new_session_id
  IN  /\ sid # NoSessionId
      /\ sid # requests'[r].cookie
      /\ requests'[r].set_cookie = sid
      /\ requests'[r].client = sid
      /\ requests'[r].status # NoStatus

\* C16: for every request, if the samo_session cookie names a live
\* session, that session's client is attached, no session is created and
\* no samo_session cookie is set; if the cookie is absent or names no live
\* session, exactly one new session is created, its client is attached and
\* the response sets samo_session to the new id, which differs from the
\* presented value.
C16_EveryRequestGetsItsSession ==
  [][\A r \in 1..MaxRequests :
       /\ LiveSessionKept(r)
       /\ (Creates(r) /\ ~requests[r].found) =>
            DOMAIN sessions' = DOMAIN sessions \cup {requests'[r].new_session_id}
       /\ (Ends(r) /\ ~requests[r].found) => NewSessionDelivered(r)]_vars

\* What holds instead: the claim for the requests whose bootstrap
\* completes and whose route returns a response; a request whose bootstrap
\* fails ends without a session, and one whose route raises ends with its
\* session registered and no cookie set.
C16_SessionDeliveredWhenNothingRaises ==
  [][\A r \in 1..MaxRequests :
       /\ LiveSessionKept(r)
       /\ (Creates(r) /\ ~requests[r].found) =>
            DOMAIN sessions' = DOMAIN sessions \cup {requests'[r].new_session_id}
       /\ (Ends(r) /\ ~requests[r].found) =>
            IF requests'[r].status # NoStatus
            THEN NewSessionDelivered(r)
            ELSE /\ requests'[r].set_cookie = NoSessionId
                 /\ requests[r].pc = "bootstrap" =>
                      /\ requests'[r].new_session_id = NoSessionId
                      /\ UNCHANGED sessions
                 /\ requests[r].pc = "route" =>
                      requests'[r].new_session_id \in DOMAIN sessions']_vars

\* The route of a request without a cookie raised: its session is
\* registered and the cookie was never set.
C16_SessionWithoutCookie ==
  \E r \in 1..MaxRequests :
    /\ requests[r].pc = "done"
    /\ requests[r].cookie = NoCookie
    /\ requests[r].exc = "Exception"
    /\ requests[r].status = NoStatus
    /\ requests[r].new_session_id \in DOMAIN sessions
    /\ requests[r].set_cookie = NoSessionId

\* The session id request r acts under: the id of its cookie when that
\* names a live session, the new id otherwise.
SessionIdOf(q) == IF q.found THEN q.cookie ELSE q.new_session_id

\* Everything logout clears is cleared.
LoggedOut(c) ==
  /\ c.access_token = None
  /\ c.refresh_token = None
  /\ c.user_info = None
  /\ c.session_cookie = {}
  /\ c.csrf_token = ""
  /\ ~is_authenticated(c)

\* C17: logging out destroys the session entirely: after
\* destroy_session(sid) on a live session, as GET /logout does for the
\* session of the cookie, get_client(sid) is None and the client of the
\* session has had logout applied: access_token, refresh_token and
\* user_info are None, the session cookie and the CSRF token are empty and
\* is_authenticated is false.
C17_LogoutDestroysTheSession ==
  [][\A r \in 1..MaxRequests : \A sid \in DOMAIN sessions :
       Destroys(r, sid) =>
         /\ ClientAfter(sid) = NoClient
         /\ requests'[r].popped = sessions[sid]
         /\ LoggedOut(clients'[sessions[sid]])]_vars

\* A client that a sign-in had authenticated was logged out.
C17_AuthenticatedClientLoggedOut ==
  \E r, l \in 1..MaxRequests :
    /\ requests[r].pc = "done"
    /\ requests[r].route = "logout"
    /\ requests[r].popped # NoClient
    /\ requests[l].pc = "done"
    /\ requests[l].route = "login"
    /\ requests[l].client = requests[r].popped
    /\ requests[l].exc = "none"
    /\ requests[l].answer.has_result
    /\ LoggedOut(clients[requests[r].popped])
    /\ get_client(requests[r].cookie) = NoClient

\* Request r gets the answer of upstream to its sign-in in this step.
SignInAnswered(r) == requests[r].pc = "signin" /\ requests'[r].pc = "done"

\* C18: whenever ActiveNetClient.login returns without raising (POST
\* /login then answers 303 to /), the same client object registered under
\* the session id has is_authenticated true.
C18_LoginAuthenticatesTheSession ==
  [][\A r \in 1..MaxRequests :
       (SignInAnswered(r) /\ requests'[r].exc = "none") =>
         /\ requests'[r].status = 303
         /\ ClientAfter(SessionIdOf(requests[r])) = requests[r].client
         /\ is_authenticated(clients'[requests[r].client])]_vars

\* What holds instead: login returns without raising exactly for status
\* 200 with response code 0000 or 0001 (or none), the route answers 303,
\* and the client is authenticated exactly when the answer holds a result
\* with an access token.
C18_AuthenticatedOnlyWithAToken ==
  [][\A r \in 1..MaxRequests :
       SignInAnswered(r) =>
         LET a == requests'[r].answer
         IN  /\ requests'[r].exc = "none" <=>
                  (a.status = 200 /\ a.code \in {"0000", "0001", NoCode})
             /\ requests'[r].exc = "none" =>
                  /\ requests'[r].status = 303
                  /\ is_authenticated(clients'[requests[r].client])
                       <=> a.has_result]_vars

\* POST /login answered 303 and the client of the session, still
\* registered, is not authenticated.
C18_RedirectedUnauthenticated ==
  \E r \in 1..MaxRequests :
    /\ requests[r].pc = "done"
    /\ requests[r].route = "login"
    /\ requests[r].status = 303
    /\ requests[r].answer.code = "0001"
    /\ get_client(SessionIdOf(requests[r])) = requests[r].client
    /\ ~is_authenticated(clients[requests[r].client])

\* C19: when the upstream sign-in answers with a response code other than
\* 0000 or 0001, login raises APIError carrying that code and message and
\* leaves access_token, refresh_token, user_info and session_cookie of the
\* client unchanged; POST /login then answers 401 and the session stays
\* registered under the same id.
C19_RejectedLoginChangesNothing ==
  [][\A r \in 1..MaxRequests : \A answer \in SignInAnswers :
       (/\ SignInAnswered(r)
        /\ requests'[r].answer = answer
        /\ answer.status = 200
        /\ ResponseCode(answer) \notin {"0000", "0001"}) =>
         /\ requests'[r].exc = "APIError"
         /\ requests'[r].code = answer.code
         /\ requests'[r].error = answer.message
         /\ requests'[r].status = 401
         /\ clients'[requests[r].client] = clients[requests[r].client]
         /\ is_authenticated(clients'[requests[r].client])
              = is_authenticated(clients[requests[r].client])
         /\ sessions' = sessions]_vars

\* A sign-in that upstream rejected with a body that holds tokens: 401,
\* the client still registered under its id and still unauthenticated.
C19_RejectedLoginSeen ==
  \E r \in 1..MaxRequests :
    /\ requests[r].pc = "done"
    /\ requests[r].route = "login"
    /\ requests[r].answer.code = "1004"
    /\ requests[r].answer.has_result
    /\ requests[r].status = 401
    /\ requests[r].exc = "APIError"
    /\ get_client(SessionIdOf(requests[r])) = requests[r].client
    /\ ~is_authenticated(clients[requests[r].client])
    /\ clients[requests[r].client].csrf_token # ""

\* Request r has run destroy_session on a live session.
Destroyed(r) == requests[r].pc = "done" /\ requests[r].popped # NoClient

\* C28: a destroyed session stays logged out: once destroy_session(sid)
\* has run, the client that was registered under sid never again holds an
\* access token, whatever requests were in flight on that session.
C28_DestroyedSessionStaysLoggedOut ==
  \A r \in 1..MaxRequests :
    Destroyed(r) => ~is_authenticated(clients[requests[r].popped])

\* What holds instead: the session id is never registered again, and the
\* client it named holds an access token only when a sign-in on that client
\* went through.
C28_DestroyedSessionStaysUnregistered ==
  \A r \in 1..MaxRequests :
    Destroyed(r) =>
      /\ get_client(requests[r].cookie) = NoClient
      /\ is_authenticated(clients[requests[r].popped]) =>
            \E q \in 1..MaxRequests :
              /\ requests[q].pc = "done"
              /\ requests[q].route = "login"
              /\ requests[q].client = requests[r].popped
              /\ requests[q].exc = "none"
              /\ requests[q].answer.has_result

\* A sign-in that arrived before the logout of its session was answered
\* after it: the destroyed client holds an access token.
C28_LoginAnsweredAfterLogout ==
  /\ requests[2].route = "login"
  /\ requests[2].pc = "done"
  /\ requests[3].route = "logout"
  /\ Destroyed(3)
  /\ requests[2].client = requests[3].popped
  /\ is_authenticated(clients[requests[3].popped])
  /\ get_client(requests[3].cookie) = NoClient

\* A logout with no sign-in in flight: the destroyed client holds no token.
C28_DestroyedAndLoggedOut ==
  \E r \in 1..MaxRequests :
    /\ Destroyed(r)
    /\ LoggedOut(clients[requests[r].popped])
    /\ \A q \in 1..MaxRequests : requests[q].route # "login"

\* create_session of request r raises in this step.
CreateRaises(r) == requests[r].pc = "bootstrap" /\ requests'[r].pc = "done"

\* C29: a session is registered only after the bootstrap of its client has
\* completed: when bootstrap fails, create_session raises, the session
\* table is left unchanged and no session id is handed out; every client
\* reachable through get_client has completed bootstrap.
C29_RegisteredOnlyAfterBootstrap ==
  /\ [](\A sid \in DOMAIN sessions :
          /\ get_client(sid) \in DOMAIN clients
          /\ clients[get_client(sid)].csrf_token # ""
          /\ clients[get_client(sid)].session_cookie # {})
  /\ [][\A r \in 1..MaxRequests :
          CreateRaises(r) =>
            /\ requests'[r].exc \in {"HTTPStatusError", "BootstrapError"}
            /\ sessions' = sessions
            /\ delivered' = delivered
            /\ requests'[r].set_cookie = NoSessionId
            /\ requests'[r].new_session_id = NoSessionId
            /\ requests'[r].client = NoClient
            /\ requests[r].session_id \notin DOMAIN sessions']_vars

\* A bootstrap failed next to a registered session: the table holds the
\* one session, and the id of the failed call is known to nobody.
C29_BootstrapFailedNextToASession ==
  \E r \in 1..MaxRequests :
    /\ requests[r].pc = "done"
    /\ requests[r].exc = "BootstrapError"
    /\ requests[r].session_id # NoSessionId
    /\ requests[r].session_id \notin DOMAIN sessions
    /\ requests[r].session_id \notin delivered
    /\ clients[requests[r].session_id].csrf_token = ""
    /\ DOMAIN sessions # {}
    /\ \A sid \in DOMAIN sessions : clients[get_client(sid)].csrf_token # ""

(***************************************************************************)
(* Invocations of the core functions in progress at the same time          *)
(*                                                                         *)
(* Each invocation runs on its own arguments and local variables; the      *)
(* steps of different invocations interleave at every iteration of a loop, *)
(* as when the functions are called from several threads.  today is the    *)
(* date of the clock, which datetime.date.today() reads.                   *)
(***************************************************************************)

\* The number of invocations in progress at the same time.
MaxCalls == 2

\* An invocation that has not started; the arguments are those of its
\* function, the others are empty.
Call(fn, p, acts, md, prm, pg) ==
  [fn |-> fn, pc |-> "ready",
   pattern |-> p, activities |-> acts, meeting_dates |-> md,
   params |-> prm, page |-> pg,
   current |-> NoDate, end |-> NoDate, all_weekdays |-> {},
   exception_dates |-> {}, wom |-> ParseWeeksOfMonth(<<>>), dates |-> {},
   today |-> NoDate, index |-> 0, acc |-> NoEvents,
   result |-> <<>>]

\* Three days of a week with an exception on the Wednesday.
P_ThreeDays ==
  Pattern(IsoStr(2026, 3, 16), IsoStr(2026, 3, 18), <<>>,
          <<StrEntry(IsoStr(2026, 3, 18))>>, <<PD(W_MonWed)>>)

\* Four days of the same week, Wednesday and Friday.
P_FourDays ==
  Pattern(IsoStr(2026, 3, 17), IsoStr(2026, 3, 20), <<>>, <<>>,
          <<PD(W_WedFri)>>)

CallInputs ==
  {Call("expand", pt, <<>>, <<>>, <<>>, 0) :
     pt \in {P_ThreeDays, P_FourDays, P_IntException}}
  \cup
  {Call("build", EmptyPattern, <<Activity(1, IsoStr(2026, 3, 16))>>,
        (1 :> MeetingInfo(1, FALSE, <<P_ThreeDays>>)), <<>>, 0),
   Call("build", EmptyPattern,
        <<Activity(2, IsoStr(2026, 3, 17)), Activity(1, IsoStr(2026, 3, 16))>>,
        <<>>, <<>>, 0)}
  \cup
  {Call("query", EmptyPattern, <<>>, <<>>,
        ("q" :> <<"a", " ", "b">>) @@ ("category_ids" :> <<12, 3>>), 25)}

\* The dates of the clock: midnight passes at most once.
FirstDay == Ymd2Ord(2026, 3, 16)

LastDay == FirstDay + 1

InitConcurrent ==
  /\ pc = "serving"
  /\ calls \in [1..MaxCalls -> CallInputs]
  /\ today = FirstDay
  /\ pattern = EmptyPattern
  /\ expanded = NoResult
  /\ activity = <<>>
  /\ meeting_info = NoMeetingInfo
  /\ resolved = NoResult
  /\ activities = <<>>
  /\ meeting_dates = <<>>
  /\ months = NoMonths
  /\ QueryIdle
  /\ BatchIdle
  /\ SessionIdle

\* The invocation ends with result r.
Done(call, r) == [call EXCEPT !.pc = "done", !.result = r]

\* calendar.py 121-157: expand_pattern_dates up to the loop over the days.
ExpandBegins(call) ==
  LET p     == call.pattern
      start == parse_iso(StrVal(p.beginning_date)).date
      end   == parse_iso(StrVal(p.ending_date)).date
      ex    == CollectExceptionDates(p.exception_dates, {})
      wom   == ParseWeeksOfMonth(p.weeks_of_month)
  IN  IF start = NoDate \/ end = NoDate
      THEN Done(call, [exc |-> "none", dates |-> {}])
      ELSE IF ex.exc # "none" THEN Done(call, [exc |-> ex.exc, dates |-> {}])
      ELSE IF wom.exc # "none" THEN Done(call, [exc |-> wom.exc, dates |-> {}])
      ELSE [call EXCEPT !.pc = "days", !.current = start, !.end = end,
                        !.all_weekdays = AllWeekdays(p.pattern_dates, {}),
                        !.exception_dates = ex.dates, !.wom = wom,
                        !.dates = {}]

\* The body of the day loop with dates kept in one set for all the
\* invocations instead of a local variable.
DayStep_SharedDates(cs, i) ==
  LET shared == UNION {cs[k].dates : k \in {j \in DOMAIN cs : cs[j].pc = "days"}}
  IN  IF Includes(cs[i].current, cs[i].all_weekdays, cs[i].exception_dates,
                  cs[i].wom)
      THEN shared \cup {cs[i].current}
      ELSE shared

\* calendar.py 160-168: dates after the body of the day loop of invocation
\* i.
DayStep(cs, i) ==
  IF Includes(cs[i].current, cs[i].all_weekdays, cs[i].exception_dates,
              cs[i].wom)
  THEN cs[i].dates \cup {cs[i].current}
  ELSE cs[i].dates

ExpandBegin(i) ==
  /\ calls[i].fn = "expand"
  /\ calls[i].pc = "ready"
  /\ calls' = [calls EXCEPT ![i] = ExpandBegins(@)]
  /\ UNCHANGED <<pc, calendarVars, queryVars, batchVars, sessionVars>>

\* calendar.py 159-169: one iteration of the day loop.
ExpandDay(i) ==
  /\ calls[i].pc = "days"
  /\ calls[i].current <= calls[i].end
  /\ calls' = [calls EXCEPT ![i] =
       IF @.current = DateMax
       THEN Done(@, [exc |-> "OverflowError", dates |-> {}])
       ELSE [@ EXCEPT !.dates = DayStep(calls, i), !.current = @ + 1]]
  /\ UNCHANGED <<pc, calendarVars, queryVars, batchVars, sessionVars>>

\* calendar.py 159 and 170: the loop ends and dates is returned.
ExpandReturn(i) ==
  /\ calls[i].pc = "days"
  /\ calls[i].current > calls[i].end
  /\ calls' = [calls EXCEPT ![i] =
       Done(@, [exc |-> "none", dates |-> @.dates])]
  /\ UNCHANGED <<pc, calendarVars, queryVars, batchVars, sessionVars>>

\* calendar.py 214-222: the clock is read, and an empty list returns.
BuildBegin(i) ==
  /\ calls[i].fn = "build"
  /\ calls[i].pc = "ready"
  /\ calls' = [calls EXCEPT ![i] =
       IF @.activities = <<>>
       THEN Done([@ EXCEPT !.today = today], NoMonths)
       ELSE [@ EXCEPT !.pc = "activities", !.today = today, !.index = 0,
                      !.acc = NoEvents]]
  /\ UNCHANGED <<pc, calendarVars, queryVars, batchVars, sessionVars>>

\* calendar.py 224-276: one iteration of the loop over the activities.
BuildActivity(i) ==
  /\ calls[i].pc = "activities"
  /\ calls[i].index < Len(calls[i].activities)
  /\ LET a  == calls[i].activities[calls[i].index + 1]
         mi == DictGet(calls[i].meeting_dates, a.id)
         r  == activity_meeting_dates(a, mi)
     IN  calls' = [calls EXCEPT ![i] =
           IF r.exc # "none"
           THEN Done(@, [exc |-> r.exc, months |-> <<>>])
           ELSE [@ EXCEPT !.acc = AddEvent(@, CalendarEvent(calls[i].index, a, mi),
                                           r.dates),
                          !.index = @ + 1]]
  /\ UNCHANGED <<pc, calendarVars, queryVars, batchVars, sessionVars>>

\* calendar.py 278-338: the months are built and returned.
BuildMonths(i) ==
  /\ calls[i].pc = "activities"
  /\ calls[i].index = Len(calls[i].activities)
  /\ calls' = [calls EXCEPT ![i] = Done(@, MonthsOfEvents(@.acc, @.today))]
  /\ UNCHANGED <<pc, calendarVars, queryVars, batchVars, sessionVars>>

\* calendar.py 346-367
QueryCall(i) ==
  /\ calls[i].fn = "query"
  /\ calls[i].pc = "ready"
  /\ calls' = [calls EXCEPT ![i] =
       Done(@, build_query_string(@.params, @.page))]
  /\ UNCHANGED <<pc, calendarVars, queryVars, batchVars, sessionVars>>

\* Midnight passes.
Tick ==
  /\ today < LastDay
  /\ today' = today + 1
  /\ UNCHANGED <<pc, pattern, expanded, activity, meeting_info, resolved,
                 activities, meeting_dates, months, queryVars, batchVars,
                 sessionVars, callVars>>

NextConcurrent ==
  \/ \E i \in 1..MaxCalls : ExpandBegin(i)
  \/ \E i \in 1..MaxCalls : ExpandDay(i)
  \/ \E i \in 1..MaxCalls : ExpandReturn(i)
  \/ \E i \in 1..MaxCalls : BuildBegin(i)
  \/ \E i \in 1..MaxCalls : BuildActivity(i)
  \/ \E i \in 1..MaxCalls : BuildMonths(i)
  \/ \E i \in 1..MaxCalls : QueryCall(i)
  \/ Tick

SpecConcurrent == InitConcurrent /\ [][NextConcurrent]_vars

(***************************************************************************)
(* Properties of the invocations in progress at the same time              *)
(***************************************************************************)

\* What the invocation returns when it runs alone on its arguments, at
\* the date it read from the clock.
Alone(call) ==
  IF call.fn = "expand" THEN expand_pattern_dates(call.pattern)
  ELSE IF call.fn = "build"
  THEN build_calendar_data(call.activities, call.meeting_dates, call.today)
  ELSE build_query_string(call.params, call.page)

Arguments(call) ==
  <<call.fn, call.pattern, call.activities, call.meeting_dates, call.params,
    call.page>>

\* C25: expansion, assembly and query-string building share no mutable
\* state: when several invocations of expand_pattern_dates,
\* build_calendar_data and build_query_string run at the same time for
\* different requests, under every interleaving each invocation returns
\* what it would return when run alone on the same inputs at the same
\* current date, and no invocation modifies its inputs.
C25_InvocationsDoNotInterfere ==
  /\ [](\A i \in DOMAIN calls :
          calls[i].pc = "done" => calls[i].result = Alone(calls[i]))
  /\ [][\A i \in DOMAIN calls : Arguments(calls'[i]) = Arguments(calls[i])]_vars

\* Two expansions whose day loops ran at the same time over ranges that
\* overlap have both returned, each its own dates, and midnight has passed.
C25_OverlappingExpansionsReturned ==
  /\ today = LastDay
  /\ calls[1].pattern = P_ThreeDays
  /\ calls[2].pattern = P_FourDays
  /\ calls[1].pc = "done"
  /\ calls[2].pc = "done"
  /\ calls[1].result.dates = {Ymd2Ord(2026, 3, 16)}
  /\ calls[2].result.dates = {Ymd2Ord(2026, 3, 18), Ymd2Ord(2026, 3, 20)}

\* A build that read the clock before midnight returned after it, next to
\* a build that started after midnight: each marks its own today.
C25_BuildsOnBothSidesOfMidnight ==
  /\ today = LastDay
  /\ \A i \in DOMAIN calls : calls[i].fn = "build" /\ calls[i].pc = "done"
  /\ calls[1].today = FirstDay
  /\ calls[2].today = LastDay
  /\ calls[1].result.months # <<>>

(***************************************************************************)
(* The copies of the calendar core in routes/activities.py.  The helpers   *)
(* of the standard library (datetime, calendar, str, dict, urllib) are the *)
(* ones above; every function and constant of the module is translated     *)
(* from its own text.  Both modules return the calendar as dicts, the      *)
(* TypedDicts of app.calendar being dicts: a dict is the record of its     *)
(* keys.                                                                   *)
(***************************************************************************)

\* routes/activities.py 51-58
routes_parse_iso(v) ==
  IF Falsy(v) THEN [exc |-> "none", date |-> NoDate]
  ELSE IF v.t # "str" THEN [exc |-> "TypeError", date |-> NoDate]
  ELSE [exc |-> "none", date |-> FromIsoFormat(Prefix(v.s, 10))]

\* routes/activities.py 40-48
routes_WEEKDAY_ABBR_MAP ==
  [k \in {<<"m", "o", "n">>, <<"t", "u", "e">>, <<"w", "e", "d">>,
          <<"t", "h", "u">>, <<"f", "r", "i">>, <<"s", "a", "t">>,
          <<"s", "u", "n">>} |->
     CASE k = <<"m", "o", "n">> -> 0
       [] k = <<"t", "u", "e">> -> 1
       [] k = <<"w", "e", "d">> -> 2
       [] k = <<"t", "h", "u">> -> 3
       [] k = <<"f", "r", "i">> -> 4
       [] k = <<"s", "a", "t">> -> 5
       [] k = <<"s", "u", "n">> -> 6]

\* routes/activities.py 66-71, in _parse_weekdays
RECURSIVE routes_WeekdaysOfParts(_, _)
routes_WeekdaysOfParts(parts, result) ==
  IF parts = <<>> THEN result
  ELSE LET key == Prefix(Lower(Strip(Head(parts))), 3)
       IN  routes_WeekdaysOfParts(Tail(parts),
                           IF key \in DOMAIN routes_WEEKDAY_ABBR_MAP
                           THEN Append(result, routes_WEEKDAY_ABBR_MAP[key])
                           ELSE result)

\* routes/activities.py 61-71
routes_parse_weekdays(weekdays_str) == routes_WeekdaysOfParts(Split(weekdays_str), <<>>)

\* routes/activities.py 87-97, in _expand_pattern_dates
RECURSIVE routes_CollectExceptionDates(_, _)
routes_CollectExceptionDates(excs, exception_dates) ==
  IF excs = <<>> THEN [exc |-> "none", dates |-> exception_dates]
  ELSE LET e == Head(excs)
           r == IF e.kind = "str" THEN routes_parse_iso(e.v)
                ELSE IF e.kind = "dict" THEN routes_parse_iso(DictGetDate(e))
                ELSE [exc |-> "none", date |-> NoDate]
       IN  IF r.exc # "none" THEN [exc |-> r.exc, dates |-> {}]
           ELSE routes_CollectExceptionDates(
                  Tail(excs),
                  IF r.date # NoDate THEN exception_dates \cup {r.date}
                  ELSE exception_dates)

\* routes/activities.py 99-101, in _expand_pattern_dates
RECURSIVE routes_AllWeekdays(_, _)
routes_AllWeekdays(pattern_dates, all_weekdays) ==
  IF pattern_dates = <<>> THEN all_weekdays
  ELSE routes_AllWeekdays(Tail(pattern_dates),
                   all_weekdays \cup SeqToSet(routes_parse_weekdays(Head(pattern_dates).weekdays)))

\* routes/activities.py 107-110, in _expand_pattern_dates
RECURSIVE routes_ParseWeekParts(_, _)
routes_ParseWeekParts(parts, parsed) ==
  IF parts = <<>> THEN [exc |-> "none", weeks |-> parsed]
  ELSE LET part == Strip(Head(parts))
       IN  IF IsDigitStr(part)
           THEN IF AllDigits(part)
                THEN routes_ParseWeekParts(Tail(parts), parsed \cup {DecimalValue(part)})
                ELSE [exc |-> "ValueError", weeks |-> {}]
           ELSE routes_ParseWeekParts(Tail(parts), parsed)

\* routes/activities.py 104-112, in _expand_pattern_dates
routes_ParseWeeksOfMonth(weeks_of_month) ==
  IF weeks_of_month = <<>> THEN [exc |-> "none", unset |-> TRUE, weeks |-> {}]
  ELSE LET r == routes_ParseWeekParts(Split(weeks_of_month), {})
       IN  [exc |-> r.exc, unset |-> (r.weeks = {}), weeks |-> r.weeks]

\* routes/activities.py 122-122, in _expand_pattern_dates
routes_Occurrence(current) == ((DayOf(current) - 1) \div 7) + 1

\* routes/activities.py 118-126, in _expand_pattern_dates
routes_Includes(current, all_weekdays, exception_dates, wom) ==
  /\ Weekday(current) \in all_weekdays
  /\ current \notin exception_dates
  /\ (wom.unset \/ routes_Occurrence(current) \in wom.weeks)

\* routes/activities.py 114-128, in _expand_pattern_dates
RECURSIVE routes_ExpandLoop(_, _, _, _, _, _)
routes_ExpandLoop(current, end, all_weekdays, exception_dates, wom, dates) ==
  IF current > end THEN [exc |-> "none", dates |-> dates]
  ELSE LET dates2 == IF routes_Includes(current, all_weekdays, exception_dates, wom)
                     THEN dates \cup {current} ELSE dates
       IN  IF current = DateMax THEN [exc |-> "OverflowError", dates |-> {}]
           ELSE routes_ExpandLoop(current + 1, end, all_weekdays, exception_dates,
                           wom, dates2)

\* routes/activities.py 74-128
routes_expand_pattern_dates(p) ==
  LET start == routes_parse_iso(StrVal(p.beginning_date)).date
      end   == routes_parse_iso(StrVal(p.ending_date)).date
  IN  IF start = NoDate \/ end = NoDate THEN [exc |-> "none", dates |-> {}]
      ELSE LET ex == routes_CollectExceptionDates(p.exception_dates, {})
           IN  IF ex.exc # "none" THEN [exc |-> ex.exc, dates |-> {}]
               ELSE LET all_weekdays == routes_AllWeekdays(p.pattern_dates, {})
                        wom == routes_ParseWeeksOfMonth(p.weeks_of_month)
                    IN  IF wom.exc # "none" THEN [exc |-> wom.exc, dates |-> {}]
                        ELSE routes_ExpandLoop(start, end, all_weekdays, ex.dates,
                                        wom, {})

\* routes/activities.py 145-145, in _activity_meeting_dates
RECURSIVE routes_UnionOfExpansions(_, _)
RECURSIVE routes_UnionStep(_, _, _)
routes_UnionStep(patterns, dates, r) ==
  IF r.exc # "none" THEN [exc |-> r.exc, dates |-> {}]
  ELSE routes_UnionOfExpansions(Tail(patterns), dates \cup r.dates)

\* routes/activities.py 143-145, in _activity_meeting_dates
routes_UnionOfExpansions(patterns, dates) ==
  IF patterns = <<>> THEN [exc |-> "none", dates |-> dates]
  ELSE routes_UnionStep(patterns, dates, routes_expand_pattern_dates(Head(patterns)))

\* routes/activities.py 140-151, in _activity_meeting_dates
routes_StartDateSet(a) ==
  LET d == routes_parse_iso(StrVal(a.date_range_start)).date
  IN  IF d # NoDate THEN {d} ELSE {}

\* routes/activities.py 147-153, in _activity_meeting_dates
routes_FallbackIfEmpty(a, r) ==
  IF r.exc # "none" THEN r
  ELSE IF r.dates = {} THEN [exc |-> "none", dates |-> routes_StartDateSet(a)]
  ELSE r

\* routes/activities.py 131-153
routes_activity_meeting_dates(a, mi) ==
  IF mi.is_none \/ mi.no_meeting_dates
  THEN [exc |-> "none", dates |-> routes_StartDateSet(a)]
  ELSE routes_FallbackIfEmpty(a, routes_UnionOfExpansions(mi.activity_patterns, {}))

\* routes/activities.py 17-38
routes_PILL_COLORS ==
  <<"#1a5276", "#117a65", "#784212", "#6c3483", "#1a618f",
    "#922b21", "#7d6608", "#1e8449", "#d35400", "#2e4053",
    "#148f77", "#b03a2e", "#1f618d", "#7b241c", "#196f3d",
    "#a04000", "#4a235a", "#0e6655", "#7e5109", "#2874a6">>

\* routes/activities.py 190-192, in build_calendar_data
RECURSIVE routes_SlotsOfPatternDates(_)
routes_SlotsOfPatternDates(pds) ==
  IF pds = <<>> THEN <<>>
  ELSE (IF Head(pds).starting_time # <<>>
        THEN <<<<Head(pds).starting_time, Head(pds).ending_time>>>>
        ELSE <<>>) \o routes_SlotsOfPatternDates(Tail(pds))

\* routes/activities.py 189-192, in build_calendar_data
RECURSIVE routes_SlotsOfPatterns(_)
routes_SlotsOfPatterns(patterns) ==
  IF patterns = <<>> THEN <<>>
  ELSE routes_SlotsOfPatternDates(Head(patterns).pattern_dates)
         \o routes_SlotsOfPatterns(Tail(patterns))

\* routes/activities.py 187-192, in build_calendar_data
routes_TimeSlots(mi) == IF mi.is_none THEN <<>> ELSE routes_SlotsOfPatterns(mi.activity_patterns)

\* routes/activities.py 195-200, in build_calendar_data
RECURSIVE routes_UniqueSlots(_, _)
routes_UniqueSlots(time_slots, unique_slots) ==
  IF time_slots = <<>> THEN unique_slots
  ELSE routes_UniqueSlots(Tail(time_slots),
                   IF Head(time_slots) \in SeqToSet(unique_slots)
                   THEN unique_slots
                   ELSE Append(unique_slots, Head(time_slots)))

\* routes/activities.py 183-218, in build_calendar_data
routes_CalendarEvent(index, a, mi) ==
  LET unique_slots == routes_UniqueSlots(routes_TimeSlots(mi), <<>>)
  IN  [id |-> a.id,
       name |-> a.name,
       color |-> routes_PILL_COLORS[(index % Len(routes_PILL_COLORS)) + 1],
       location |-> IF a.location.is_none THEN "" ELSE a.location.label,
       ages |-> a.ages,
       total_open |-> a.total_open,
       action_link_href |-> IF a.action_link.is_none THEN ""
                            ELSE a.action_link.href,
       action_link_label |-> IF a.action_link.is_none THEN "Enroll"
                             ELSE a.action_link.label,
       date_range_start |-> a.date_range_start,
       date_range_end |-> a.date_range_end,
       starting_time |-> IF unique_slots # <<>>
                         THEN Prefix(unique_slots[1][1], 5) ELSE <<>>,
       ending_time |-> IF unique_slots # <<>>
                       THEN Prefix(unique_slots[1][2], 5) ELSE <<>>,
       number |-> a.number]

\* routes/activities.py 223-230, in build_calendar_data
routes_AddEvent(acc, event, all_dates) ==
  [exc |-> "none",
   event_by_date |->
     [d \in DOMAIN acc.event_by_date \cup all_dates |->
        (IF d \in DOMAIN acc.event_by_date THEN acc.event_by_date[d] ELSE <<>>)
          \o (IF d \in all_dates THEN <<event>> ELSE <<>>)],
   earliest_date |->
     IF all_dates = {} THEN acc.earliest_date
     ELSE IF acc.earliest_date = NoDate \/ SetMin(all_dates) < acc.earliest_date
     THEN SetMin(all_dates) ELSE acc.earliest_date,
   latest_date |->
     IF all_dates = {} THEN acc.latest_date
     ELSE IF acc.latest_date = NoDate \/ SetMax(all_dates) > acc.latest_date
     THEN SetMax(all_dates) ELSE acc.latest_date]

\* routes/activities.py 221-230, in build_calendar_data
RECURSIVE routes_CollectEvents(_, _, _, _)
RECURSIVE routes_CollectStep(_, _, _, _, _)
routes_CollectStep(acts, md, index, acc, r) ==
  IF r.exc # "none" THEN [acc EXCEPT !.exc = r.exc]
  ELSE routes_CollectEvents(acts, md, index + 1,
                     routes_AddEvent(acc,
                              routes_CalendarEvent(index, acts[index + 1],
                                            DictGet(md, acts[index + 1].id)),
                              r.dates))

\* routes/activities.py 182-230, in build_calendar_data
routes_CollectEvents(acts, md, index, acc) ==
  IF index >= Len(acts) THEN acc
  ELSE routes_CollectStep(acts, md, index, acc,
                   routes_activity_meeting_dates(acts[index + 1],
                                          DictGet(md, acts[index + 1].id)))

\* routes/activities.py 254-269, in build_calendar_data
routes_CalendarDay(year, month, day_num, event_by_date, tod) ==
  IF day_num = 0
  THEN [day |-> 0, in_month |-> FALSE, iso_date |-> <<>>, events |-> <<>>]
  ELSE LET d == Ymd2Ord(year, month, day_num)
       IN  [day |-> day_num,
            in_month |-> TRUE,
            iso_date |-> IsoFormat(d),
            is_today |-> (d = tod),
            events |-> IF d \in DOMAIN event_by_date THEN event_by_date[d]
                       ELSE <<>>]

\* routes/activities.py 243-277, in build_calendar_data
routes_CalendarMonth(cur_month, event_by_date, tod) ==
  LET year  == YearOf(cur_month)
      month == MonthOf(cur_month)
      cal   == monthcalendar(year, month)
  IN  [year |-> year,
       month |-> month,
       name |-> <<MONTH_NAMES[month], year>>,
       weeks |-> [w \in 1..Len(cal) |->
                    [c \in 1..Len(cal[w]) |->
                       routes_CalendarDay(year, month, cal[w][c], event_by_date, tod)]]]

\* routes/activities.py 240-285, in build_calendar_data
RECURSIVE routes_MonthLoop(_, _, _, _, _)
routes_MonthLoop(cur_month, end_month, event_by_date, tod, ms) ==
  IF cur_month > end_month THEN [exc |-> "none", months |-> ms]
  ELSE LET year  == YearOf(cur_month)
           month == MonthOf(cur_month)
           ms2   == Append(ms, routes_CalendarMonth(cur_month, event_by_date, tod))
       IN  IF month = 12
           THEN IF year + 1 > MAXYEAR
                THEN [exc |-> "ValueError", months |-> <<>>]
                ELSE routes_MonthLoop(Ymd2Ord(year + 1, 1, 1), end_month,
                               event_by_date, tod, ms2)
           ELSE routes_MonthLoop(Ymd2Ord(year, month + 1, 1), end_month,
                          event_by_date, tod, ms2)

\* routes/activities.py 232-285, in build_calendar_data
routes_MonthsOfEvents(ev, tod) ==
  IF ev.exc # "none" THEN [exc |-> ev.exc, months |-> <<>>]
  ELSE IF ev.earliest_date = NoDate \/ ev.latest_date = NoDate
  THEN [exc |-> "none", months |-> <<>>]
  ELSE routes_MonthLoop(FirstOfMonth(ev.earliest_date), FirstOfMonth(ev.latest_date),
                 ev.event_by_date, tod, <<>>)

\* routes/activities.py 156-285
routes_build_calendar_data(acts, md, tod) ==
  IF acts = <<>> THEN [exc |-> "none", months |-> <<>>]
  ELSE routes_MonthsOfEvents(routes_CollectEvents(acts, md, 0, NoEvents), tod)

\* routes/activities.py 298-301, in build_query_string
RECURSIVE routes_IdPairs(_, _)
routes_IdPairs(key, ids) ==
  IF ids = <<>> THEN <<>>
  ELSE <<<<key, IntStr(Head(ids))>>>> \o routes_IdPairs(key, Tail(ids))

\* routes/activities.py 288-309
routes_build_query_string(p, pg) ==
  urlencode(
    (IF GetText(p, "q") # <<>> THEN <<<<K_q, p["q"]>>>> ELSE <<>>)
    \o (IF GetText(p, "date_after") # <<>>
        THEN <<<<K_date_after, p["date_after"]>>>> ELSE <<>>)
    \o (IF GetText(p, "date_before") # <<>>
        THEN <<<<K_date_before, p["date_before"]>>>> ELSE <<>>)
    \o routes_IdPairs(K_category_ids, GetList(p, "category_ids"))
    \o routes_IdPairs(K_center_ids, GetList(p, "center_ids"))
    \o (IF GetFlag(p, "show_full_details")
        THEN <<<<K_show_full_details, V_true>>>> ELSE <<>>)
    \o (IF GetText(p, "view") # <<>> /\ p["view"] # V_card
        THEN <<<<K_view, p["view"]>>>> ELSE <<>>)
    \o <<<<K_page, IntStr(pg)>>>>)

(***************************************************************************)
(* Properties of the copies                                                *)
(***************************************************************************)

\* The patterns of the meeting infos of the activity list.
PatternsBuilt ==
  UNION {SeqToSet(meeting_dates[id].activity_patterns) :
           id \in DOMAIN meeting_dates}

\* C30: the copies of the core in the routes module agree with
\* app.calendar: on every input _expand_pattern_dates,
\* _activity_meeting_dates and build_calendar_data of routes.activities
\* return what expand_pattern_dates, activity_meeting_dates and
\* build_calendar_data of app.calendar return, with the same fields (day,
\* in_month, iso_date, is_today, events) on every day cell.
C30_CopiesAgree ==
  pc = "built" =>
    /\ \A p \in PatternsBuilt :
         routes_expand_pattern_dates(p) = expand_pattern_dates(p)
    /\ \A i \in 1..Len(activities) :
         routes_activity_meeting_dates(activities[i], MeetingInfoAt(i))
           = ResolvedAt(i)
    /\ routes_build_calendar_data(activities, meeting_dates, today) = months

\* A day cell with is_today false added when the cell has no such field.
WithIsToday(cell) ==
  IF "is_today" \in DOMAIN cell THEN cell
  ELSE [day |-> cell.day, in_month |-> cell.in_month,
        iso_date |-> cell.iso_date, is_today |-> FALSE,
        events |-> cell.events]

\* The months with is_today added to the cells that lack it.
MonthsWithIsToday(ms) ==
  [k \in 1..Len(ms) |->
     [ms[k] EXCEPT !.weeks =
        [w \in 1..Len(ms[k].weeks) |->
           [c \in 1..Len(ms[k].weeks[w]) |-> WithIsToday(ms[k].weeks[w][c])]]]]

\* The cells of the copy that have no is_today field.
CellsWithoutIsToday(ms) ==
  {cell \in SeqToSet(CellsOfMonths(ms)) : "is_today" \notin DOMAIN cell}

\* C30, what holds of build_calendar_data: the copy raises when
\* app.calendar raises, its cells outside the month have no is_today field,
\* and with that field added as false the two calendars are the same.
C30_CalendarCopiesDifferInPaddingCells ==
  pc = "built" =>
    LET copy == routes_build_calendar_data(activities, meeting_dates, today)
    IN  /\ copy.exc = months.exc
        /\ MonthsWithIsToday(copy.months) = months.months
        /\ \A cell \in CellsWithoutIsToday(copy.months) : ~cell.in_month
        /\ \A cell \in SeqToSet(CellsOfMonths(copy.months)) :
             ~cell.in_month => "is_today" \notin DOMAIN cell
        /\ \A cell \in SeqToSet(CellsOfMonths(months.months)) :
             "is_today" \in DOMAIN cell

\* C30, what holds of expand_pattern_dates: the copy returns and raises as
\* app.calendar does.
C30_ExpansionCopiesAgree ==
  pc = "expanded" => routes_expand_pattern_dates(pattern) = expanded

\* C30, what holds of activity_meeting_dates: the copy returns and raises
\* as app.calendar does.
C30_MeetingDateCopiesAgree ==
  pc = "resolved" =>
    routes_activity_meeting_dates(activity, meeting_info) = resolved

\* C30, what holds of build_query_string: the copy returns the same text.
C30_QueryStringCopiesAgree ==
  pc = "built" => routes_build_query_string(params, page) = query

\* A calendar of two months was built: app.calendar has is_today on its
\* cells outside the month, the copy has not.
C30_PaddingCellsBuilt ==
  /\ pc = "built"
  /\ Len(months.months) = 2
  /\ \E cell \in SeqToSet(CellsOfMonths(months.months)) :
       ~cell.in_month /\ ~cell.is_today
  /\ CellsWithoutIsToday(
       routes_build_calendar_data(activities, meeting_dates, today).months)
       # {}

====
